---- MODULE Spec2Model ----
(***************************************************************************)
(* Model of dias_reports_bulk_reanalysis (bin/run_reports.py,              *)
(* bin/utils/utils.py, bin/utils/dx_manage.py).                            *)
(*                                                                         *)
(* Each component of the program is a group of variables with its own      *)
(* initial predicate and actions; a specification runs one component and   *)
(* leaves the variables of the others at their idle values.                *)
(***************************************************************************)
EXTENDS Integers, Sequences, FiniteSets, TLC

VARIABLES
    \* ---- utils.filter_non_unique_specimen_ids
    fn_pc,                \* "call" before the call, "done" after it returned
    fn_reports,           \* argument: list of sample records
    fn_unique,            \* returned list
    fn_non_unique,        \* returned mapping specimen_id -> list of records
    \* ---- utils.limit_samples
    ls_pc,                \* "call", then "returned", "exit0" or the exception raised
    ls_samples,           \* argument: list of per sample data
    ls_limit,             \* argument: None or an integer
    ls_start,             \* argument: None or a yymmdd date
    ls_end,               \* argument: None or a yymmdd date
    ls_now,               \* datetime.now().strftime('%y%m%d') at the call
    ls_result,            \* returned list
    \* ---- utils.validate_test_codes
    vt_pc,                \* "call", then "returned" or the exception raised
    vt_all_sample_data,   \* argument: list of per sample data
    vt_genepanels,        \* argument: rows of the genepanels file
    vt_valid,             \* returned list of samples with their valid codes
    vt_invalid,           \* returned mapping sample -> invalid codes
    \* ---- run_reports.monitor_launched_jobs
    mj_pc,                \* "monitor" in the loop, then "returned" or "raised"
    mj_tracked,           \* the job ids the function was called with
    mj_platform,          \* the platform: job id -> current state
    mj_job_ids,           \* job_ids: the ids still pending
    mj_job_states,        \* job_states of the latest poll, None before the first
    mj_failed_jobs,       \* failed_jobs
    mj_completed_jobs,    \* completed_jobs
    mj_terminated_jobs,   \* terminated_jobs
    \* ---- run_reports.download_all_reports
    dl_pc,                \* "start", "download", then "exit0", "returned" or "raised"
    dl_job_details,       \* job_details: the described child jobs of the logged batch jobs
    dl_all_job_states,    \* all_job_states of check_job_state, None before the check
    dl_todo,              \* the projects the download loop has still to visit
    dl_dirs,              \* the local project directories created
    dl_downloaded,        \* the child jobs whose files were given to download_single_file
    \* ---- dx_manage.unarchive_files
    ua_pc,                \* "loop", then "exit0" or the name of the exception raised
    ua_project_files,     \* project_files: the items (project, files) in dict order
    ua_next,              \* position of the next item of the loop
    ua_files,             \* the loop variable files, None before the first iteration
    ua_calls,             \* the project_unarchive calls issued: project and file ids
    ua_printed,           \* the project named in the line the handler prints, None when none
    ua_message,           \* the parts of the message of the RuntimeError, None when not raised
    \* ---- utils.write_to_log
    wl_file,              \* the log file: None when absent, else its JSON object as (key, value) pairs in order
    wl_initial,           \* the log file as it was before the first call
    wl_written,           \* key -> job_ids of the last call made for the key
    wl_calls,             \* number of calls made
    wl_result,            \* outcome of the latest call: "written" or "AssertionError"
    \* ---- run_reports.configure_inputs
    ci_pc,                \* "loop", then "returned" (and "launched" or "declined"), "exit0" or the name of the exception raised
    ci_assay,             \* assay
    ci_unarchive,         \* unarchive
    ci_manual_cnv_call_jobs,\* manual_cnv_call_jobs of the config: project -> job
    ci_manual_dias_single_paths,\* manual_dias_single_paths of the config: project -> folder
    ci_todo,              \* the projects the loop has still to check
    ci_project_samples,   \* project_samples: project -> bundle
    ci_manual_review,     \* manual_review: project -> issues
    ci_found,             \* project -> what the platform returned when the project was checked
    ci_unarchive_request, \* project_files given to unarchive_files, None when it was not called
    ci_launched,          \* the projects run_all_batch_jobs was given
    \* ---- utils.write_manifest
    wm_pc,                \* "call", then "returned"
    wm_sample_data,       \* sample_data: the samples of one project
    wm_ignore_codes,      \* ignore_codes
    wm_manifest,          \* the lines of the manifest file, None before it is written
    \* ---- dx_manage.find_in_parallel
    fp_pc,                \* "submit", "collect", then "returned" or "raised"
    fp_items,             \* items: the search terms
    fp_chunked_items,     \* chunked_items
    fp_futures,           \* the submitted searches: chunk number -> state and result
    fp_collected,         \* the chunk numbers as_completed has yielded, in that order
    fp_results,           \* results
    fp_outcome,           \* None, then the returned list or the chunk whose exception was raised
    \* ---- utils.call_in_parallel
    cp_pc,                \* "submit", "collect", then "returned" or "raised"
    cp_items,             \* items
    cp_ignore_missing,    \* ignore_missing
    cp_futures,           \* the submitted calls: place of the item -> state
    cp_collected,         \* the places as_completed has yielded, in that order
    cp_results,           \* results
    cp_outcome,           \* None, then the returned list or the place whose exception was raised
    \* ---- utils.parse_sample_identifiers
    ps_pc,                \* "call", then "returned" or "RuntimeError"
    ps_reports,           \* reports: project and file name of every report found
    ps_samples,           \* the returned list
    ps_invalid,           \* the names listed in the message of the RuntimeError
    \* ---- utils.split_genepanels_test_codes
    sg_pc,                \* "call", then "returned" or "RuntimeError"
    sg_genepanels,        \* genepanels: the rows indication, panel_name
    sg_rows,              \* the returned rows test_code, indication, panel_name
    sg_code,              \* the test code named in the message of the RuntimeError
    \* ---- dx_manage.run_batch
    rb_pc,                \* "call", then "returned"
    rb_args,              \* the arguments of the call
    rb_computed,          \* app_input as first built, before batch_inputs is merged in
    rb_runs,              \* the calls DXApp(batch_app_id).run(app_input, project, name) made
    \* ---- utils.filter_reports_with_variants
    fr_pc,                \* "call", then "returned"
    fr_reports,           \* reports: the report workflows of one category, with their output
    fr_platform,          \* workbook id -> None when deleted, else its details metadata
    fr_file_ids,          \* the returned file ids
    \* ---- run_reports.configure_inputs: from the reports found to the project bundles
    cg_pc,                \* "filter", "group", "check", then "returned", "exit0" or "RuntimeError"
    cg_clarity,           \* the specimen ids of the Clarity export
    cg_reports,           \* the sample records parsed from the reports found
    cg_samples,           \* samples: the records retained so far
    cg_non_unique,        \* non_unique_specimens: specimen -> its records
    cg_project_samples,   \* project_samples: project -> bundle
    cg_manual_review,     \* manual_review: project -> the kinds of issue recorded
    cg_stdout,            \* what was printed for the operator
    \* ---- utils.write_to_log: two invocations on one log file
    wc_pc,                \* per invocation: "start", "loaded", "opened", then "done" or "JSONDecodeError"
    wc_args,              \* per invocation: its key and job_ids
    wc_log_data,          \* per invocation: its local log_data
    wc_file,              \* the log file: None when absent, the empty file, or its JSON object
    wc_overlap,           \* an invocation began while the other was between its read and its write
    \* ---- run_reports.main and run_all_batch_jobs: confirmation, launch, job log
    mn_pc,                \* "prompt", "launch", "logged", then "done", "exit0" or "Exception"
    mn_monitor,           \* args.monitor
    mn_answer,            \* the last answer given to the prompt, None before the first
    mn_prompts,           \* number of answers given
    mn_todo,              \* the projects of sample_data not yet launched
    mn_uploaded,          \* the projects whose manifest was uploaded
    mn_platform_jobs,     \* the batch jobs launched on the platform
    mn_launched_jobs,     \* launched_jobs of run_all_batch_jobs
    mn_log                \* the launched-job log file, None when absent

fnVars == <<fn_pc, fn_reports, fn_unique, fn_non_unique>>
lsVars == <<ls_pc, ls_samples, ls_limit, ls_start, ls_end, ls_now, ls_result>>
vtVars == <<vt_pc, vt_all_sample_data, vt_genepanels, vt_valid, vt_invalid>>
mjVars == <<mj_pc, mj_tracked, mj_platform, mj_job_ids, mj_job_states, mj_failed_jobs, mj_completed_jobs, mj_terminated_jobs>>
dlVars == <<dl_pc, dl_job_details, dl_all_job_states, dl_todo, dl_dirs, dl_downloaded>>
uaVars == <<ua_pc, ua_project_files, ua_next, ua_files, ua_calls, ua_printed, ua_message>>
wlVars == <<wl_file, wl_initial, wl_written, wl_calls, wl_result>>
ciVars == <<ci_pc, ci_assay, ci_unarchive, ci_manual_cnv_call_jobs, ci_manual_dias_single_paths, ci_todo, ci_project_samples, ci_manual_review, ci_found, ci_unarchive_request, ci_launched>>
wmVars == <<wm_pc, wm_sample_data, wm_ignore_codes, wm_manifest>>
fpVars == <<fp_pc, fp_items, fp_chunked_items, fp_futures, fp_collected, fp_results, fp_outcome>>
cpVars == <<cp_pc, cp_items, cp_ignore_missing, cp_futures, cp_collected, cp_results, cp_outcome>>
psVars == <<ps_pc, ps_reports, ps_samples, ps_invalid>>
sgVars == <<sg_pc, sg_genepanels, sg_rows, sg_code>>
rbVars == <<rb_pc, rb_args, rb_computed, rb_runs>>
frVars == <<fr_pc, fr_reports, fr_platform, fr_file_ids>>
cgVars == <<cg_pc, cg_clarity, cg_reports, cg_samples, cg_non_unique, cg_project_samples, cg_manual_review, cg_stdout>>
wcVars == <<wc_pc, wc_args, wc_log_data, wc_file, wc_overlap>>
mnVars == <<mn_pc, mn_monitor, mn_answer, mn_prompts, mn_todo, mn_uploaded, mn_platform_jobs, mn_launched_jobs, mn_log>>

vars == <<fnVars, lsVars, vtVars, mjVars, dlVars, uaVars, wlVars, ciVars, wmVars, fpVars, cpVars, psVars, sgVars, rbVars, frVars, cgVars, wcVars, mnVars>>

(***************************************************************************)
(* Generic helpers                                                         *)
(***************************************************************************)

\* all sequences over S of length at most n
BoundedSeq(S, n) == UNION {[1..k -> S] : k \in 0..n}

\* Python's `x in list`
InSeq(x, s) == \E i \in 1..Len(s) : s[i] = x

\* elements of a sequence
Range(s) == {s[i] : i \in 1..Len(s)}

\* a dict with no key
EmptyDict == [k \in {} |-> <<>>]

\* dict[k] = v (insert or replace)
DictSet(d, k, v) == [x \in DOMAIN d \cup {k} |-> IF x = k THEN v ELSE d[x]]

\* defaultdict(list)[k]
DictGetList(d, k) == IF k \in DOMAIN d THEN d[k] ELSE <<>>

\* Python's None, and a value that is not None
None == <<>>
Some(x) == <<x>>
Val(o) == o[1]

Min(a, b) == IF a <= b THEN a ELSE b

(***************************************************************************)
(* Idle values: the state of a component that a specification does not run *)
(***************************************************************************)

FilterIdle ==
    /\ fn_pc = "idle"
    /\ fn_reports = <<>>
    /\ fn_unique = <<>>
    /\ fn_non_unique = EmptyDict

LimitIdle ==
    /\ ls_pc = "idle"
    /\ ls_samples = <<>>
    /\ ls_limit = None
    /\ ls_start = None
    /\ ls_end = None
    /\ ls_now = 0
    /\ ls_result = <<>>

ValidateIdle ==
    /\ vt_pc = "idle"
    /\ vt_all_sample_data = <<>>
    /\ vt_genepanels = <<>>
    /\ vt_valid = <<>>
    /\ vt_invalid = EmptyDict

MonitorIdle ==
    /\ mj_pc = "idle"
    /\ mj_tracked = {}
    /\ mj_platform = EmptyDict
    /\ mj_job_ids = {}
    /\ mj_job_states = None
    /\ mj_failed_jobs = <<>>
    /\ mj_completed_jobs = <<>>
    /\ mj_terminated_jobs = <<>>

DownloadIdle ==
    /\ dl_pc = "idle"
    /\ dl_job_details = <<>>
    /\ dl_all_job_states = None
    /\ dl_todo = <<>>
    /\ dl_dirs = {}
    /\ dl_downloaded = {}

UnarchiveIdle ==
    /\ ua_pc = "idle"
    /\ ua_project_files = <<>>
    /\ ua_next = 0
    /\ ua_files = None
    /\ ua_calls = <<>>
    /\ ua_printed = None
    /\ ua_message = None

LogIdle ==
    /\ wl_file = None
    /\ wl_initial = None
    /\ wl_written = EmptyDict
    /\ wl_calls = 0
    /\ wl_result = "idle"

ConfigureIdle ==
    /\ ci_pc = "idle"
    /\ ci_assay = ""
    /\ ci_unarchive = FALSE
    /\ ci_manual_cnv_call_jobs = EmptyDict
    /\ ci_manual_dias_single_paths = EmptyDict
    /\ ci_todo = <<>>
    /\ ci_project_samples = EmptyDict
    /\ ci_manual_review = EmptyDict
    /\ ci_found = EmptyDict
    /\ ci_unarchive_request = None
    /\ ci_launched = {}

ManifestIdle ==
    /\ wm_pc = "idle"
    /\ wm_sample_data = <<>>
    /\ wm_ignore_codes = <<>>
    /\ wm_manifest = None

FindIdle ==
    /\ fp_pc = "idle"
    /\ fp_items = <<>>
    /\ fp_chunked_items = <<>>
    /\ fp_futures = EmptyDict
    /\ fp_collected = <<>>
    /\ fp_results = <<>>
    /\ fp_outcome = None

CallIdle ==
    /\ cp_pc = "idle"
    /\ cp_items = <<>>
    /\ cp_ignore_missing = FALSE
    /\ cp_futures = EmptyDict
    /\ cp_collected = <<>>
    /\ cp_results = <<>>
    /\ cp_outcome = None

ParseIdle ==
    /\ ps_pc = "idle"
    /\ ps_reports = <<>>
    /\ ps_samples = <<>>
    /\ ps_invalid = <<>>

SplitIdle ==
    /\ sg_pc = "idle"
    /\ sg_genepanels = <<>>
    /\ sg_rows = <<>>
    /\ sg_code = None

BatchIdle ==
    /\ rb_pc = "idle"
    /\ rb_args = <<>>
    /\ rb_computed = <<>>
    /\ rb_runs = <<>>

FilterReportsIdle ==
    /\ fr_pc = "idle"
    /\ fr_reports = <<>>
    /\ fr_platform = <<>>
    /\ fr_file_ids = <<>>

GroupIdle ==
    /\ cg_pc = "idle"
    /\ cg_clarity = {}
    /\ cg_reports = <<>>
    /\ cg_samples = <<>>
    /\ cg_non_unique = <<>>
    /\ cg_project_samples = <<>>
    /\ cg_manual_review = <<>>
    /\ cg_stdout = <<>>

ConcurrentLogIdle ==
    /\ wc_pc = <<>>
    /\ wc_args = <<>>
    /\ wc_log_data = <<>>
    /\ wc_file = None
    /\ wc_overlap = FALSE

MainIdle ==
    /\ mn_pc = "idle"
    /\ mn_monitor = FALSE
    /\ mn_answer = None
    /\ mn_prompts = 0
    /\ mn_todo = <<>>
    /\ mn_uploaded = {}
    /\ mn_platform_jobs = {}
    /\ mn_launched_jobs = <<>>
    /\ mn_log = None

\* ---- what a specification of one component leaves alone

fnOthersIdle ==
    /\ LimitIdle
    /\ ValidateIdle
    /\ MonitorIdle
    /\ DownloadIdle
    /\ UnarchiveIdle
    /\ LogIdle
    /\ ConfigureIdle
    /\ ManifestIdle
    /\ FindIdle
    /\ CallIdle
    /\ ParseIdle
    /\ SplitIdle
    /\ BatchIdle
    /\ FilterReportsIdle
    /\ GroupIdle
    /\ ConcurrentLogIdle
    /\ MainIdle
lsOthersIdle ==
    /\ FilterIdle
    /\ ValidateIdle
    /\ MonitorIdle
    /\ DownloadIdle
    /\ UnarchiveIdle
    /\ LogIdle
    /\ ConfigureIdle
    /\ ManifestIdle
    /\ FindIdle
    /\ CallIdle
    /\ ParseIdle
    /\ SplitIdle
    /\ BatchIdle
    /\ FilterReportsIdle
    /\ GroupIdle
    /\ ConcurrentLogIdle
    /\ MainIdle
vtOthersIdle ==
    /\ FilterIdle
    /\ LimitIdle
    /\ MonitorIdle
    /\ DownloadIdle
    /\ UnarchiveIdle
    /\ LogIdle
    /\ ConfigureIdle
    /\ ManifestIdle
    /\ FindIdle
    /\ CallIdle
    /\ ParseIdle
    /\ SplitIdle
    /\ BatchIdle
    /\ FilterReportsIdle
    /\ GroupIdle
    /\ ConcurrentLogIdle
    /\ MainIdle
mjOthersIdle ==
    /\ FilterIdle
    /\ LimitIdle
    /\ ValidateIdle
    /\ DownloadIdle
    /\ UnarchiveIdle
    /\ LogIdle
    /\ ConfigureIdle
    /\ ManifestIdle
    /\ FindIdle
    /\ CallIdle
    /\ ParseIdle
    /\ SplitIdle
    /\ BatchIdle
    /\ FilterReportsIdle
    /\ GroupIdle
    /\ ConcurrentLogIdle
    /\ MainIdle
dlOthersIdle ==
    /\ FilterIdle
    /\ LimitIdle
    /\ ValidateIdle
    /\ MonitorIdle
    /\ UnarchiveIdle
    /\ LogIdle
    /\ ConfigureIdle
    /\ ManifestIdle
    /\ FindIdle
    /\ CallIdle
    /\ ParseIdle
    /\ SplitIdle
    /\ BatchIdle
    /\ FilterReportsIdle
    /\ GroupIdle
    /\ ConcurrentLogIdle
    /\ MainIdle
uaOthersIdle ==
    /\ FilterIdle
    /\ LimitIdle
    /\ ValidateIdle
    /\ MonitorIdle
    /\ DownloadIdle
    /\ LogIdle
    /\ ConfigureIdle
    /\ ManifestIdle
    /\ FindIdle
    /\ CallIdle
    /\ ParseIdle
    /\ SplitIdle
    /\ BatchIdle
    /\ FilterReportsIdle
    /\ GroupIdle
    /\ ConcurrentLogIdle
    /\ MainIdle
wlOthersIdle ==
    /\ FilterIdle
    /\ LimitIdle
    /\ ValidateIdle
    /\ MonitorIdle
    /\ DownloadIdle
    /\ UnarchiveIdle
    /\ ConfigureIdle
    /\ ManifestIdle
    /\ FindIdle
    /\ CallIdle
    /\ ParseIdle
    /\ SplitIdle
    /\ BatchIdle
    /\ FilterReportsIdle
    /\ GroupIdle
    /\ ConcurrentLogIdle
    /\ MainIdle
ciOthersIdle ==
    /\ FilterIdle
    /\ LimitIdle
    /\ ValidateIdle
    /\ MonitorIdle
    /\ DownloadIdle
    /\ UnarchiveIdle
    /\ LogIdle
    /\ ManifestIdle
    /\ FindIdle
    /\ CallIdle
    /\ ParseIdle
    /\ SplitIdle
    /\ BatchIdle
    /\ FilterReportsIdle
    /\ GroupIdle
    /\ ConcurrentLogIdle
    /\ MainIdle
wmOthersIdle ==
    /\ FilterIdle
    /\ LimitIdle
    /\ ValidateIdle
    /\ MonitorIdle
    /\ DownloadIdle
    /\ UnarchiveIdle
    /\ LogIdle
    /\ ConfigureIdle
    /\ FindIdle
    /\ CallIdle
    /\ ParseIdle
    /\ SplitIdle
    /\ BatchIdle
    /\ FilterReportsIdle
    /\ GroupIdle
    /\ ConcurrentLogIdle
    /\ MainIdle
fpOthersIdle ==
    /\ FilterIdle
    /\ LimitIdle
    /\ ValidateIdle
    /\ MonitorIdle
    /\ DownloadIdle
    /\ UnarchiveIdle
    /\ LogIdle
    /\ ConfigureIdle
    /\ ManifestIdle
    /\ CallIdle
    /\ ParseIdle
    /\ SplitIdle
    /\ BatchIdle
    /\ FilterReportsIdle
    /\ GroupIdle
    /\ ConcurrentLogIdle
    /\ MainIdle
cpOthersIdle ==
    /\ FilterIdle
    /\ LimitIdle
    /\ ValidateIdle
    /\ MonitorIdle
    /\ DownloadIdle
    /\ UnarchiveIdle
    /\ LogIdle
    /\ ConfigureIdle
    /\ ManifestIdle
    /\ FindIdle
    /\ ParseIdle
    /\ SplitIdle
    /\ BatchIdle
    /\ FilterReportsIdle
    /\ GroupIdle
    /\ ConcurrentLogIdle
    /\ MainIdle
psOthersIdle ==
    /\ FilterIdle
    /\ LimitIdle
    /\ ValidateIdle
    /\ MonitorIdle
    /\ DownloadIdle
    /\ UnarchiveIdle
    /\ LogIdle
    /\ ConfigureIdle
    /\ ManifestIdle
    /\ FindIdle
    /\ CallIdle
    /\ SplitIdle
    /\ BatchIdle
    /\ FilterReportsIdle
    /\ GroupIdle
    /\ ConcurrentLogIdle
    /\ MainIdle
sgOthersIdle ==
    /\ FilterIdle
    /\ LimitIdle
    /\ ValidateIdle
    /\ MonitorIdle
    /\ DownloadIdle
    /\ UnarchiveIdle
    /\ LogIdle
    /\ ConfigureIdle
    /\ ManifestIdle
    /\ FindIdle
    /\ CallIdle
    /\ ParseIdle
    /\ BatchIdle
    /\ FilterReportsIdle
    /\ GroupIdle
    /\ ConcurrentLogIdle
    /\ MainIdle
rbOthersIdle ==
    /\ FilterIdle
    /\ LimitIdle
    /\ ValidateIdle
    /\ MonitorIdle
    /\ DownloadIdle
    /\ UnarchiveIdle
    /\ LogIdle
    /\ ConfigureIdle
    /\ ManifestIdle
    /\ FindIdle
    /\ CallIdle
    /\ ParseIdle
    /\ SplitIdle
    /\ FilterReportsIdle
    /\ GroupIdle
    /\ ConcurrentLogIdle
    /\ MainIdle
frOthersIdle ==
    /\ FilterIdle
    /\ LimitIdle
    /\ ValidateIdle
    /\ MonitorIdle
    /\ DownloadIdle
    /\ UnarchiveIdle
    /\ LogIdle
    /\ ConfigureIdle
    /\ ManifestIdle
    /\ FindIdle
    /\ CallIdle
    /\ ParseIdle
    /\ SplitIdle
    /\ BatchIdle
    /\ GroupIdle
    /\ ConcurrentLogIdle
    /\ MainIdle
cgOthersIdle ==
    /\ FilterIdle
    /\ LimitIdle
    /\ ValidateIdle
    /\ MonitorIdle
    /\ DownloadIdle
    /\ UnarchiveIdle
    /\ LogIdle
    /\ ConfigureIdle
    /\ ManifestIdle
    /\ FindIdle
    /\ CallIdle
    /\ ParseIdle
    /\ SplitIdle
    /\ BatchIdle
    /\ FilterReportsIdle
    /\ ConcurrentLogIdle
    /\ MainIdle
wcOthersIdle ==
    /\ FilterIdle
    /\ LimitIdle
    /\ ValidateIdle
    /\ MonitorIdle
    /\ DownloadIdle
    /\ UnarchiveIdle
    /\ LogIdle
    /\ ConfigureIdle
    /\ ManifestIdle
    /\ FindIdle
    /\ CallIdle
    /\ ParseIdle
    /\ SplitIdle
    /\ BatchIdle
    /\ FilterReportsIdle
    /\ GroupIdle
    /\ MainIdle
mnOthersIdle ==
    /\ FilterIdle
    /\ LimitIdle
    /\ ValidateIdle
    /\ MonitorIdle
    /\ DownloadIdle
    /\ UnarchiveIdle
    /\ LogIdle
    /\ ConfigureIdle
    /\ ManifestIdle
    /\ FindIdle
    /\ CallIdle
    /\ ParseIdle
    /\ SplitIdle
    /\ BatchIdle
    /\ FilterReportsIdle
    /\ GroupIdle
    /\ ConcurrentLogIdle

fnFrame == UNCHANGED <<lsVars, vtVars, mjVars, dlVars, uaVars, wlVars, ciVars, wmVars, fpVars, cpVars, psVars, sgVars, rbVars, frVars, cgVars, wcVars, mnVars>>
lsFrame == UNCHANGED <<fnVars, vtVars, mjVars, dlVars, uaVars, wlVars, ciVars, wmVars, fpVars, cpVars, psVars, sgVars, rbVars, frVars, cgVars, wcVars, mnVars>>
vtFrame == UNCHANGED <<fnVars, lsVars, mjVars, dlVars, uaVars, wlVars, ciVars, wmVars, fpVars, cpVars, psVars, sgVars, rbVars, frVars, cgVars, wcVars, mnVars>>
mjFrame == UNCHANGED <<fnVars, lsVars, vtVars, dlVars, uaVars, wlVars, ciVars, wmVars, fpVars, cpVars, psVars, sgVars, rbVars, frVars, cgVars, wcVars, mnVars>>
dlFrame == UNCHANGED <<fnVars, lsVars, vtVars, mjVars, uaVars, wlVars, ciVars, wmVars, fpVars, cpVars, psVars, sgVars, rbVars, frVars, cgVars, wcVars, mnVars>>
uaFrame == UNCHANGED <<fnVars, lsVars, vtVars, mjVars, dlVars, wlVars, ciVars, wmVars, fpVars, cpVars, psVars, sgVars, rbVars, frVars, cgVars, wcVars, mnVars>>
wlFrame == UNCHANGED <<fnVars, lsVars, vtVars, mjVars, dlVars, uaVars, ciVars, wmVars, fpVars, cpVars, psVars, sgVars, rbVars, frVars, cgVars, wcVars, mnVars>>
ciFrame == UNCHANGED <<fnVars, lsVars, vtVars, mjVars, dlVars, uaVars, wlVars, wmVars, fpVars, cpVars, psVars, sgVars, rbVars, frVars, cgVars, wcVars, mnVars>>
wmFrame == UNCHANGED <<fnVars, lsVars, vtVars, mjVars, dlVars, uaVars, wlVars, ciVars, fpVars, cpVars, psVars, sgVars, rbVars, frVars, cgVars, wcVars, mnVars>>
fpFrame == UNCHANGED <<fnVars, lsVars, vtVars, mjVars, dlVars, uaVars, wlVars, ciVars, wmVars, cpVars, psVars, sgVars, rbVars, frVars, cgVars, wcVars, mnVars>>
cpFrame == UNCHANGED <<fnVars, lsVars, vtVars, mjVars, dlVars, uaVars, wlVars, ciVars, wmVars, fpVars, psVars, sgVars, rbVars, frVars, cgVars, wcVars, mnVars>>
psFrame == UNCHANGED <<fnVars, lsVars, vtVars, mjVars, dlVars, uaVars, wlVars, ciVars, wmVars, fpVars, cpVars, sgVars, rbVars, frVars, cgVars, wcVars, mnVars>>
sgFrame == UNCHANGED <<fnVars, lsVars, vtVars, mjVars, dlVars, uaVars, wlVars, ciVars, wmVars, fpVars, cpVars, psVars, rbVars, frVars, cgVars, wcVars, mnVars>>
rbFrame == UNCHANGED <<fnVars, lsVars, vtVars, mjVars, dlVars, uaVars, wlVars, ciVars, wmVars, fpVars, cpVars, psVars, sgVars, frVars, cgVars, wcVars, mnVars>>
frFrame == UNCHANGED <<fnVars, lsVars, vtVars, mjVars, dlVars, uaVars, wlVars, ciVars, wmVars, fpVars, cpVars, psVars, sgVars, rbVars, cgVars, wcVars, mnVars>>
cgFrame == UNCHANGED <<fnVars, lsVars, vtVars, mjVars, dlVars, uaVars, wlVars, ciVars, wmVars, fpVars, cpVars, psVars, sgVars, rbVars, frVars, wcVars, mnVars>>
wcFrame == UNCHANGED <<fnVars, lsVars, vtVars, mjVars, dlVars, uaVars, wlVars, ciVars, wmVars, fpVars, cpVars, psVars, sgVars, rbVars, frVars, cgVars, mnVars>>
mnFrame == UNCHANGED <<fnVars, lsVars, vtVars, mjVars, dlVars, uaVars, wlVars, ciVars, wmVars, fpVars, cpVars, psVars, sgVars, rbVars, frVars, cgVars, wcVars>>

(***************************************************************************)
(* utils.filter_non_unique_specimen_ids                                    *)
(***************************************************************************)

\* number of report records given to one call
MaxReports == 4

ProjectIds == {"project-xxx", "project-yyy"}
InstrumentIds == {"111111", "222222"}
SpecimenIds == {"23251R0041", "23251R0044"}

\* a sample-in-project record as parse_sample_identifiers builds it
SampleRecords ==
    [project : ProjectIds, instrument_id : InstrumentIds, specimen_id : SpecimenIds]

\* the mutation: the `not in` test of the first loop is dropped
RECURSIVE build_sample_map_no_dedup(_, _)
build_sample_map_no_dedup(reports, sample_map) ==
    IF reports = <<>> THEN sample_map
    ELSE LET report == Head(reports)
             seen == DictGetList(sample_map, report.specimen_id)
         IN build_sample_map_no_dedup(Tail(reports),
                DictSet(sample_map, report.specimen_id,
                        Append(seen, report.instrument_id)))

\* first loop: specimen -> list of its distinct instrument ids
RECURSIVE build_sample_map(_, _)
build_sample_map(reports, sample_map) ==
    IF reports = <<>> THEN sample_map
    ELSE LET report == Head(reports)
             seen == DictGetList(sample_map, report.specimen_id)
             upd == IF ~InSeq(report.instrument_id, seen)
                    THEN Append(seen, report.instrument_id)
                    ELSE seen
         IN build_sample_map(Tail(reports),
                             DictSet(sample_map, report.specimen_id, upd))

sample_map_of(reports) == build_sample_map(reports, EmptyDict)

\* second loop: split the reports on the size of the specimen's instrument list
RECURSIVE split_reports(_, _, _, _)
split_reports(reports, sample_map, unique, non_unique) ==
    IF reports = <<>> THEN [unique |-> unique, non_unique |-> non_unique]
    ELSE LET report == Head(reports)
         IN IF Len(sample_map[report.specimen_id]) > 1
            THEN split_reports(Tail(reports), sample_map, unique,
                     DictSet(non_unique, report.specimen_id,
                             Append(DictGetList(non_unique, report.specimen_id),
                                    report)))
            ELSE split_reports(Tail(reports), sample_map,
                               Append(unique, report), non_unique)

filter_non_unique_specimen_ids(reports) ==
    split_reports(reports, sample_map_of(reports), <<>>, EmptyDict)

FilterInit ==
    /\ fn_pc = "call"
    /\ fn_reports \in BoundedSeq(SampleRecords, MaxReports)
    /\ fn_unique = <<>>
    /\ fn_non_unique = EmptyDict

FilterCall ==
    /\ fn_pc = "call"
    /\ LET out == filter_non_unique_specimen_ids(fn_reports)
       IN /\ fn_unique' = out.unique
          /\ fn_non_unique' = out.non_unique
    /\ fn_pc' = "done"
    /\ UNCHANGED fn_reports
    /\ fnFrame

FilterNext == FilterCall

InitFilter == FilterInit /\ fnOthersIdle

SpecFilter == InitFilter /\ [][FilterNext]_vars

\* ---- properties of filter_non_unique_specimen_ids

\* the distinct instrument ids a specimen occurs with in the input
InstrumentsOf(reports, s) ==
    {reports[i].instrument_id : i \in {j \in 1..Len(reports) : reports[j].specimen_id = s}}

Ambiguous(reports, s) == Cardinality(InstrumentsOf(reports, s)) > 1

\* the records of `reports` that satisfy Keep(_), in input order
RECURSIVE SubSeqWhere(_, _)
SubSeqWhere(reports, keep) ==
    IF reports = <<>> THEN <<>>
    ELSE IF Head(reports) \in keep
         THEN <<Head(reports)>> \o SubSeqWhere(Tail(reports), keep)
         ELSE SubSeqWhere(Tail(reports), keep)

\* C3: the call partitions its input: the unique list is exactly the records
\* of specimens with a single instrument id, in input order; the non-unique
\* bucket holds, under each ambiguous specimen, exactly that specimen's
\* records in input order; so no record is lost, duplicated or in both.
C3_FilterPartitions ==
    fn_pc = "done" =>
        /\ fn_unique =
             SubSeqWhere(fn_reports,
                         {r \in SampleRecords : ~Ambiguous(fn_reports, r.specimen_id)})
        /\ DOMAIN fn_non_unique =
             {s \in SpecimenIds : Ambiguous(fn_reports, s) }
        /\ \A s \in DOMAIN fn_non_unique :
             fn_non_unique[s] =
               SubSeqWhere(fn_reports, {r \in SampleRecords : r.specimen_id = s})
        /\ \A i \in 1..Len(fn_unique) :
             \A s \in DOMAIN fn_non_unique :
               ~InSeq(fn_unique[i], fn_non_unique[s])

\* a call on an input that holds an ambiguous specimen, an unambiguous one and
\* a specimen repeated under one instrument id
C3_Witness ==
    /\ fn_pc = "done"
    /\ Len(fn_unique) >= 2
    /\ fn_unique[1].specimen_id = fn_unique[2].specimen_id
    /\ fn_non_unique # EmptyDict

(***************************************************************************)
(* utils.date_str_to_datetime and utils.limit_samples                      *)
(***************************************************************************)

\* number of samples given to one call
MaxSamples == 3

\* largest integer limit tried (above MaxSamples: a limit larger than the list)
MaxLimit == 4

\* a datetime at midnight, as <<year, month, day>>
DateTime(y, m, d) == <<y, m, d>>

\* datetime(year=1970, month=1, day=1)
Epoch == DateTime(1970, 1, 1)

\* booked dates of the samples (datetime objects)
SampleDates == {DateTime(2023, 2, 27), DateTime(2023, 3, 4), DateTime(2023, 9, 22)}

\* yymmdd values given as --start_date / --end_date: four dates, one with
\* month 13 and one with day 00
DateArgs == {230301, 230304, 230601, 231201, 231301, 230600}

\* today's date as yymmdd; the first lies before the last booked date
NowArgs == {230601, 240101}

DateLeq(a, b) ==
    \/ a[1] < b[1]
    \/ a[1] = b[1] /\ a[2] < b[2]
    \/ a[1] = b[1] /\ a[2] = b[2] /\ a[3] <= b[3]

DaysInMonth(y, m) ==
    IF m \in {4, 6, 9, 11} THEN 30
    ELSE IF m = 2 THEN (IF y % 4 = 0 /\ (y % 100 # 0 \/ y % 400 = 0) THEN 29 ELSE 28)
    ELSE 31

\* date_str_to_datetime: the assert on the pattern
\* 2[0-9](0[0-9]|1[0-2])[0-3][0-9], then int() of each two digits with the
\* leading zeros stripped (int('') raises ValueError), then datetime()
date_str_to_datetime(date) ==
    LET yy == date \div 10000
        mm == (date \div 100) % 100
        dd == date % 100
    IN IF ~(/\ date >= 100000 /\ date <= 999999
            /\ yy \in 20..29 /\ mm \in 0..12 /\ dd \in 0..39)
       THEN [error |-> "AssertionError", value |-> Epoch]
       ELSE IF mm = 0 \/ dd = 0
       THEN [error |-> "ValueError", value |-> Epoch]
       ELSE IF dd > DaysInMonth(2000 + yy, mm)
       THEN [error |-> "ValueError", value |-> Epoch]
       ELSE [error |-> "", value |-> DateTime(2000 + yy, mm, dd)]

\* the mutation: the list is not sorted before it is limited
sorted_by_date_unsorted(samples) == samples

\* sorted(samples, key=lambda d: d['date']): a stable sort
RECURSIVE insert_by_date(_, _)
insert_by_date(sorted, sample) ==
    IF sorted = <<>> THEN <<sample>>
    ELSE IF DateLeq(Head(sorted).date, sample.date)
         THEN <<Head(sorted)>> \o insert_by_date(Tail(sorted), sample)
         ELSE <<sample>> \o sorted

RECURSIVE sort_from(_, _)
sort_from(samples, sorted) ==
    IF samples = <<>> THEN sorted
    ELSE sort_from(Tail(samples), insert_by_date(sorted, Head(samples)))

sorted_by_date(samples) == sort_from(samples, <<>>)

\* Python truth of the limit argument: None and 0 are false
LimitSet(limit) == limit # None /\ Val(limit) # 0

\* the selection loop over the sorted samples
RECURSIVE select_samples(_, _, _, _, _)
select_samples(samples, limit, start, end, limited_samples) ==
    IF samples = <<>> THEN limited_samples
    ELSE IF LimitSet(limit) /\ Len(limited_samples) >= Val(limit)
         THEN limited_samples                                   \* break
    ELSE IF ~(DateLeq(start, Head(samples).date) /\ DateLeq(Head(samples).date, end))
         THEN select_samples(Tail(samples), limit, start, end, limited_samples)
    ELSE select_samples(Tail(samples), limit, start, end,
                        Append(limited_samples, Head(samples)))

\* the whole call: [pc |-> how it ends, result |-> the returned list]
limit_samples(samples, limit, start, end, now) ==
    LET s == IF start # None THEN date_str_to_datetime(Val(start))
             ELSE [error |-> "", value |-> Epoch]
        e == IF end = None THEN date_str_to_datetime(now)
             ELSE date_str_to_datetime(Val(end))
        sorted == sorted_by_date(samples)
        limited_samples == select_samples(sorted, limit, s.value, e.value, <<>>)
    IN IF s.error # "" THEN [pc |-> s.error, result |-> <<>>]
       ELSE IF e.error # "" THEN [pc |-> e.error, result |-> <<>>]
       ELSE IF sorted = <<>> THEN [pc |-> "IndexError", result |-> <<>>]  \* samples[0]
       ELSE IF limited_samples = <<>> THEN [pc |-> "exit0", result |-> <<>>]
       ELSE [pc |-> "returned", result |-> limited_samples]

\* the sample lists: the i-th sample is named i and has any of the dates
SampleLists ==
    {[i \in 1..Len(dates) |-> [sample |-> i, date |-> dates[i]]] :
        dates \in BoundedSeq(SampleDates, MaxSamples)}

Limits == {None} \cup {Some(k) : k \in -1..MaxLimit}

LimitInit ==
    /\ ls_pc = "call"
    /\ ls_samples \in SampleLists
    /\ ls_limit \in Limits
    /\ ls_start \in {None} \cup {Some(d) : d \in DateArgs}
    /\ ls_end \in {None} \cup {Some(d) : d \in DateArgs}
    /\ ls_now \in NowArgs
    /\ ls_result = <<>>

LimitCall ==
    /\ ls_pc = "call"
    /\ LET out == limit_samples(ls_samples, ls_limit, ls_start, ls_end, ls_now)
       IN /\ ls_pc' = out.pc
          /\ ls_result' = out.result
    /\ UNCHANGED <<ls_samples, ls_limit, ls_start, ls_end, ls_now>>
    /\ lsFrame

LimitNext == LimitCall

InitLimit == LimitInit /\ lsOthersIdle

SpecLimit == InitLimit /\ [][LimitNext]_vars

\* ---- properties of limit_samples

\* the inclusive date range the call works with, when both dates are valid
LsArgsValid ==
    /\ ls_start # None => date_str_to_datetime(Val(ls_start)).error = ""
    /\ date_str_to_datetime(IF ls_end = None THEN ls_now ELSE Val(ls_end)).error = ""

LsRangeStart == IF ls_start = None THEN Epoch ELSE date_str_to_datetime(Val(ls_start)).value

LsRangeEnd == date_str_to_datetime(IF ls_end = None THEN ls_now ELSE Val(ls_end)).value

\* the input samples whose booked date lies in the range, and their number m
LsMatching ==
    {ls_samples[i] : i \in {j \in 1..Len(ls_samples) :
        /\ DateLeq(LsRangeStart, ls_samples[j].date)
        /\ DateLeq(ls_samples[j].date, LsRangeEnd)}}

LsM == Cardinality(LsMatching)

\* the returned list holds n distinct matching samples in ascending date order,
\* none of them booked later than a matching sample that was left out
LsOldest(n) ==
    /\ Len(ls_result) = n
    /\ \A i \in 1..Len(ls_result) : ls_result[i] \in LsMatching
    /\ \A i, j \in 1..Len(ls_result) : i < j =>
         /\ ls_result[i] # ls_result[j]
         /\ DateLeq(ls_result[i].date, ls_result[j].date)
    /\ \A x \in LsMatching \ Range(ls_result) :
         \A i \in 1..Len(ls_result) : DateLeq(ls_result[i].date, x.date)

\* C4 (as amended): with valid dates, at least one sample in the range (m >= 1)
\* and a limit that is absent, 0 (no limit) or k >= 1, the call returns the
\* oldest min(k, m) in-range samples (all m without a limit) in ascending date
\* order; a limit above m returns all m; and the call never returns an empty
\* list: with m = 0 it ends the process instead.
C4_LimitOldest ==
    /\ (ls_pc # "call" /\ LsArgsValid /\ LsM >= 1
            /\ (ls_limit = None \/ Val(ls_limit) >= 0)) =>
          /\ ls_pc = "returned"
          /\ LsOldest(IF LimitSet(ls_limit) THEN Min(Val(ls_limit), LsM) ELSE LsM)
    /\ ls_pc = "returned" => LsM >= 1 /\ ls_result # <<>>

\* the oldest one of two in-range samples is returned from an unsorted list of
\* three, the third sample lying before the start date
C4_Witness ==
    /\ ls_pc = "returned"
    /\ ls_limit = Some(1)
    /\ ls_start = Some(230301)
    /\ Len(ls_samples) = 3
    /\ LsM = 2
    /\ ls_result = <<ls_samples[3]>>
    /\ ls_samples[1].date = DateTime(2023, 9, 22)

\* C4 as stated, for the calls that end without an exception on a limit
\* k >= 1: the call returns the oldest min(k, m) in-range samples for every
\* sample list and every limit and date range.
C4_Original ==
    (ls_pc \in {"returned", "exit0"} /\ ls_limit # None /\ Val(ls_limit) >= 1) =>
        /\ ls_pc = "returned"
        /\ LsOldest(Min(Val(ls_limit), LsM))

\* limiting leaves zero samples: no sample lies in the range, or the limit is
\* below zero and stops the loop before the first sample
LsZeroRemain == LsM = 0 \/ (ls_limit # None /\ Val(ls_limit) < 0)

\* C18 as stated: for every sample list, an empty one included, and every
\* limit and valid date range, a call whose limiting leaves zero samples ends
\* the process with exit(0) and raises no exception.
C18_ZeroSamplesCleanExit ==
    (ls_pc # "call" /\ LsArgsValid /\ LsZeroRemain) => ls_pc = "exit0"

(***************************************************************************)
(* utils.split_genepanels_test_codes and utils.validate_test_codes         *)
(* A string is the sequence of its characters.                             *)
(***************************************************************************)

\* samples given to one call, and test codes booked over all of them
MaxValSamples == 2
MaxTotalCodes == 3

DigitChars == {"0", "1", "2", "3", "4", "5", "6", "7", "8", "9"}

\* str.lower() of one character, for the letters the codes use
LowerChar(c) ==
    CASE c = "R" -> "r" [] c = "U" -> "u" [] c = "H" -> "h" [] c = "G" -> "g"
      [] c = "N" -> "n" [] c = "C" -> "c" [] c = "S" -> "s" [] c = "E" -> "e"
      [] OTHER -> c

\* test.lower().replace(' ', '')
RECURSIVE lower_no_spaces(_)
lower_no_spaces(test) ==
    IF test = <<>> THEN <<>>
    ELSE IF Head(test) = " " THEN lower_no_spaces(Tail(test))
    ELSE <<LowerChar(Head(test))>> \o lower_no_spaces(Tail(test))

\* length of the longest run of digits of s that starts at position i
RECURSIVE digits_from(_, _)
digits_from(s, i) ==
    IF i <= Len(s) /\ s[i] \in DigitChars THEN 1 + digits_from(s, i + 1) ELSE 0

\* s[i], s[i+1], ... spell the characters of w
starts_at(s, i, w) ==
    /\ i + Len(w) - 1 <= Len(s)
    /\ \A j \in 1..Len(w) : s[i + j - 1] = w[j]

\* re.search(r'HGNC:[\d]+', test): the pattern matches somewhere in the code
re_search_hgnc(test) ==
    \E i \in 1..Len(test) :
        starts_at(test, i, <<"H", "G", "N", "C">>) /\ digits_from(test, i + 5) >= 1

\* re.match(r'[RC][\d]+\.[\d]+', x): the pattern matches at the start
re_match_rc_code(x) ==
    /\ Len(x) >= 1
    /\ x[1] \in {"R", "C"}
    /\ digits_from(x, 2) >= 1
    /\ LET dot == 2 + digits_from(x, 2)
       IN dot <= Len(x) /\ x[dot] = "." /\ digits_from(x, dot + 1) >= 1

\* x.split('_')[0]
RECURSIVE before_underscore(_)
before_underscore(x) ==
    IF x = <<>> \/ Head(x) = "_" THEN <<>>
    ELSE <<Head(x)>> \o before_underscore(Tail(x))

\* the test_code column of one genepanels row
test_code_of(indication) ==
    IF re_match_rc_code(indication) THEN before_underscore(indication) ELSE indication

\* the mutation: the sense check of the test codes is left out
split_genepanels_test_codes_unchecked(genepanels) ==
    [error |-> "",
     rows |-> [i \in 1..Len(genepanels) |->
                  [test_code |-> test_code_of(genepanels[i].indication),
                   indication |-> genepanels[i].indication,
                   panel_name |-> genepanels[i].panel_name]]]

\* split_genepanels_test_codes: the rows with their test_code, or RuntimeError
\* when a test code is linked to more than one indication
split_genepanels_test_codes(genepanels) ==
    LET rows == [i \in 1..Len(genepanels) |->
                    [test_code |-> test_code_of(genepanels[i].indication),
                     indication |-> genepanels[i].indication,
                     panel_name |-> genepanels[i].panel_name]]
        clash == \E i, j \in 1..Len(rows) :
                    /\ rows[i].test_code = rows[j].test_code
                    /\ rows[i].indication # rows[j].indication
    IN [error |-> IF clash THEN "RuntimeError" ELSE "", rows |-> rows]

\* genepanels files: one sound, one whose code R1.1 has two indications
GenepanelsSound ==
    << [indication |-> <<"R", "1", ".", "1", "_", "A">>, panel_name |-> <<"A", "_", "1">>],
       [indication |-> <<"C", "2", ".", "1", "_", "B">>, panel_name |-> <<"B", "_", "1">>],
       [indication |-> <<"_", "H", "G", "N", "C", ":", "5">>, panel_name |-> <<"H", "_", "1">>] >>

GenepanelsClash ==
    << [indication |-> <<"R", "1", ".", "1", "_", "A">>, panel_name |-> <<"A", "_", "1">>],
       [indication |-> <<"R", "1", ".", "1", "_", "B">>, panel_name |-> <<"B", "_", "1">>] >>

GenepanelsFiles == {GenepanelsSound, GenepanelsClash}

\* booked test codes: in the catalog, gene ids, a gene id followed by a
\* letter, two spellings of research use, and an unknown code
BookedCodes ==
    { <<"R", "1", ".", "1">>, <<"H", "G", "N", "C", ":", "1">>, <<"H", "G", "N", "C", ":", "1", "x">>, <<"R", "e", "s", "e", "a", "r", "c", "h", " ", "U", "s", "e">>, <<"r", "e", "s", "e", "a", "r", "c", "h", "U", "s", "e">>, <<"b", "a", "d">> }

\* the entry made for a sample with no booked test (one message, kept whole)
NoTestsBooked == <<"No tests booked for sample">>

ValSampleNames == {"111111-23251R0041", "222222-23251R0042"}

\* the loop over the codes of one sample: <<sample_valid_test, sample_invalid_test>>
RECURSIVE check_codes(_, _, _, _)
check_codes(test_codes, genepanels_test_codes, sample_valid_test, sample_invalid_test) ==
    IF test_codes = <<>> THEN <<sample_valid_test, sample_invalid_test>>
    ELSE LET test == Head(test_codes)
         IN IF test \in genepanels_test_codes \/ re_search_hgnc(test)
            THEN check_codes(Tail(test_codes), genepanels_test_codes,
                             Append(sample_valid_test, test), sample_invalid_test)
            ELSE IF lower_no_spaces(test) = <<"r", "e", "s", "e", "a", "r", "c", "h", "u", "s", "e">>
            THEN check_codes(Tail(test_codes), genepanels_test_codes,
                             sample_valid_test, sample_invalid_test)
            ELSE check_codes(Tail(test_codes), genepanels_test_codes,
                             sample_valid_test, Append(sample_invalid_test, test))

\* the loop over the samples: [valid |-> list, invalid |-> dict]
RECURSIVE validate_samples(_, _, _, _)
validate_samples(all_sample_data, genepanels_test_codes, valid, invalid) ==
    IF all_sample_data = <<>> THEN [valid |-> valid, invalid |-> invalid]
    ELSE LET sample_data == Head(all_sample_data)
             sample == sample_data.sample
             rest == Tail(all_sample_data)
         IN IF sample_data.codes = <<>>
            THEN validate_samples(rest, genepanels_test_codes, valid,
                     DictSet(invalid, sample,
                             Append(DictGetList(invalid, sample), NoTestsBooked)))
            ELSE LET split == check_codes(sample_data.codes, genepanels_test_codes,
                                          <<>>, <<>>)
                     valid2 == IF split[1] # <<>>
                               THEN Append(valid, [sample_data EXCEPT !.codes = split[1]])
                               ELSE valid
                     invalid2 == IF split[2] # <<>>
                                 THEN DictSet(invalid, sample,
                                              DictGetList(invalid, sample) \o split[2])
                                 ELSE invalid
                 IN validate_samples(rest, genepanels_test_codes, valid2, invalid2)

\* the whole call: [pc |-> how it ends, valid, invalid]
validate_test_codes(all_sample_data, genepanels) ==
    LET panels == split_genepanels_test_codes(genepanels)
        genepanels_test_codes == {panels.rows[i].test_code : i \in 1..Len(panels.rows)}
        out == validate_samples(all_sample_data, genepanels_test_codes, <<>>, EmptyDict)
    IN IF panels.error # ""
       THEN [pc |-> panels.error, valid |-> <<>>, invalid |-> EmptyDict]
       ELSE [pc |-> "returned", valid |-> out.valid, invalid |-> out.invalid]

\* sample lists of n samples with at most t booked codes over all of them
RECURSIVE ValSampleLists(_, _)
ValSampleLists(n, t) ==
    IF n = 0 THEN {<<>>}
    ELSE UNION {
           { <<[sample |-> name, codes |-> codes]>> \o rest :
               name \in ValSampleNames, rest \in ValSampleLists(n - 1, t - Len(codes)) }
           : codes \in BoundedSeq(BookedCodes, t) }

ValidateInit ==
    /\ vt_pc = "call"
    /\ vt_all_sample_data \in UNION {ValSampleLists(n, MaxTotalCodes) : n \in 0..MaxValSamples}
    /\ vt_genepanels \in GenepanelsFiles
    /\ vt_valid = <<>>
    /\ vt_invalid = EmptyDict

ValidateCall ==
    /\ vt_pc = "call"
    /\ LET out == validate_test_codes(vt_all_sample_data, vt_genepanels)
       IN /\ vt_pc' = out.pc
          /\ vt_valid' = out.valid
          /\ vt_invalid' = out.invalid
    /\ UNCHANGED <<vt_all_sample_data, vt_genepanels>>
    /\ vtFrame

ValidateNext == ValidateCall

InitValidate == ValidateInit /\ vtOthersIdle

SpecValidate == InitValidate /\ [][ValidateNext]_vars

\* ---- properties of validate_test_codes

\* a code of the form HGNC:<digits>
OfFormHgnc(test) ==
    /\ starts_at(test, 1, <<"H", "G", "N", "C", ":">>)
    /\ digits_from(test, 6) >= 1
    /\ 5 + digits_from(test, 6) = Len(test)

\* a 'research use' variant, in any casing or spacing
IsResearchUse(test) == lower_no_spaces(test) = <<"r", "e", "s", "e", "a", "r", "c", "h", "u", "s", "e">>

\* the test codes of the catalog
CatalogCodes(genepanels) ==
    {test_code_of(genepanels[i].indication) : i \in 1..Len(genepanels)}

\* an accepted code: a catalog test_code or a code of the form HGNC:<digits>
AcceptedCode(test) == test \in CatalogCodes(vt_genepanels) \/ OfFormHgnc(test)

\* the input samples that have an accepted code, each with its accepted codes
RECURSIVE SamplesWithAccepted(_)
SamplesWithAccepted(samples) ==
    IF samples = <<>> THEN <<>>
    ELSE LET kept == SelectSeq(Head(samples).codes, AcceptedCode)
         IN IF kept # <<>>
            THEN <<[Head(samples) EXCEPT !.codes = kept]>> \o SamplesWithAccepted(Tail(samples))
            ELSE SamplesWithAccepted(Tail(samples))

MaxJobs == 2

JobIds == 1..MaxJobs

\* states the platform reports; a job moves running -> terminating ->
\* terminated or running -> any of the other four, and then stays
JobStates == {"running", "terminating", "done", "failed", "partially failed", "terminated"}

PlatformSuccessors(state) ==
    CASE state = "running" -> JobStates \ {"running"}
      [] state = "terminating" -> {"terminated"}
      [] OTHER -> {}

\* the states in which monitor_launched_jobs stops watching a job
MonitorFinalStates == {"done", "failed", "partially failed", "terminated"}

\* every ordering of a finite set as a list (the order of a dict built from
\* results collected as they complete)
ListsOf(S) ==
    {s \in [1..Cardinality(S) -> S] : \A i, j \in 1..Cardinality(S) : s[i] = s[j] => i = j}

\* get_job_states: describe every given id, id -> state
get_job_states(job_ids, platform) == [j \in job_ids |-> platform[j]]

failed_of(job_states) ==
    {k \in DOMAIN job_states : job_states[k] \in {"failed", "partially failed"}}

\* the mutation: the state compared with is not the one the platform reports
done_of_wrong_state(job_states) ==
    {k \in DOMAIN job_states : job_states[k] = "completed"}

done_of(job_states) == {k \in DOMAIN job_states : job_states[k] = "done"}

terminated_of(job_states) == {k \in DOMAIN job_states : job_states[k] = "terminated"}

\* the mutation: every id that was queried is dropped from the pending ids
remaining_job_ids_all_dropped(job_ids, job_states) == job_ids \ DOMAIN job_states

\* the three set differences that end an iteration
remaining_job_ids(job_ids, job_states) ==
    ((job_ids \ failed_of(job_states)) \ done_of(job_states)) \ terminated_of(job_states)

MonitorInit ==
    /\ mj_pc = "monitor"
    /\ mj_tracked \in SUBSET JobIds
    /\ mj_platform \in [mj_tracked -> JobStates]
    /\ mj_job_ids = mj_tracked
    /\ mj_job_states = None
    /\ mj_failed_jobs = <<>>
    /\ mj_completed_jobs = <<>>
    /\ mj_terminated_jobs = <<>>

\* the platform moves one tracked job to a next state
PlatformStep ==
    /\ mj_pc = "monitor"
    /\ \E j \in mj_tracked :
         \E next \in PlatformSuccessors(mj_platform[j]) :
            mj_platform' = [mj_platform EXCEPT ![j] = next]
    /\ UNCHANGED <<mj_pc, mj_tracked, mj_job_ids, mj_job_states,
                   mj_failed_jobs, mj_completed_jobs, mj_terminated_jobs>>
    /\ mjFrame

\* one iteration of the while loop: query, record, drop, then break and
\* print the summary when nothing is pending, else sleep
Poll ==
    /\ mj_pc = "monitor"
    /\ mj_job_ids # {}
    /\ LET job_states == get_job_states(mj_job_ids, mj_platform)
           job_ids == remaining_job_ids(mj_job_ids, job_states)
       IN /\ mj_job_states' = Some(job_states)
          /\ \E failed \in ListsOf(failed_of(job_states)) :
                mj_failed_jobs' = mj_failed_jobs \o failed
          /\ \E terminated \in ListsOf(terminated_of(job_states)) :
                mj_terminated_jobs' = mj_terminated_jobs \o terminated
          /\ \E done \in ListsOf(done_of(job_states)) :
                mj_completed_jobs' = mj_completed_jobs \o done
          /\ mj_job_ids' = job_ids
          /\ mj_pc' = IF job_ids = {} THEN "returned" ELSE "monitor"
    /\ UNCHANGED <<mj_tracked, mj_platform>>
    /\ mjFrame

\* a describe call of the poll raises: call_in_parallel raises it again
PollRaises ==
    /\ mj_pc = "monitor"
    /\ mj_job_ids # {}
    /\ mj_pc' = "raised"
    /\ UNCHANGED <<mj_tracked, mj_platform, mj_job_ids, mj_job_states,
                   mj_failed_jobs, mj_completed_jobs, mj_terminated_jobs>>
    /\ mjFrame

\* called with no job id: the loop body never runs, the summary is printed
ReturnNoJobs ==
    /\ mj_pc = "monitor"
    /\ mj_job_ids = {}
    /\ mj_pc' = "returned"
    /\ UNCHANGED <<mj_tracked, mj_platform, mj_job_ids, mj_job_states,
                   mj_failed_jobs, mj_completed_jobs, mj_terminated_jobs>>
    /\ mjFrame

MonitorNext == PlatformStep \/ Poll \/ PollRaises \/ ReturnNoJobs

InitMonitor == MonitorInit /\ mjOthersIdle

SpecMonitor == InitMonitor /\ [][MonitorNext]_vars

\* the loop keeps running: a poll that has something to record or to report
\* is made after the sleep, and the return is taken
SpecMonitorFair ==
    /\ InitMonitor
    /\ [][MonitorNext]_vars
    /\ WF_vars(Poll)
    /\ WF_vars(ReturnNoJobs)

\* ---- properties of monitor_launched_jobs

MjRecorded == mj_failed_jobs \o mj_completed_jobs \o mj_terminated_jobs

C6_StateInv ==
    \* every tracked id is pending or recorded, never both, and recorded once
    /\ mj_job_ids \cup Range(MjRecorded) = mj_tracked
    /\ mj_job_ids \cap Range(MjRecorded) = {}
    /\ \A i, j \in 1..Len(MjRecorded) : MjRecorded[i] = MjRecorded[j] => i = j
    \* and it is recorded in the list of the state it was seen in
    /\ \A j \in Range(mj_failed_jobs) : mj_platform[j] \in {"failed", "partially failed"}
    /\ \A j \in Range(mj_completed_jobs) : mj_platform[j] = "done"
    /\ \A j \in Range(mj_terminated_jobs) : mj_platform[j] = "terminated"
    \* the function has not returned while an id is pending
    /\ mj_pc = "returned" => mj_job_ids = {}

C6_StepInv ==
    \* an id leaves the pending ids only in a poll that saw it in a final state
    /\ \A j \in mj_job_ids \ mj_job_ids' :
         /\ mj_job_states' # None
         /\ j \in DOMAIN Val(mj_job_states')
         /\ Val(mj_job_states')[j] \in MonitorFinalStates
    /\ mj_job_ids' \subseteq mj_job_ids
    \* a poll queries pending ids only, so never an id that was recorded
    /\ mj_job_states' # mj_job_states =>
         /\ DOMAIN Val(mj_job_states') \subseteq mj_job_ids
         /\ DOMAIN Val(mj_job_states') \cap Range(MjRecorded) = {}

\* C6: a job id leaves the pending set only in a poll that reports it done,
\* failed, partially failed or terminated; it is then in exactly one of the
\* three lists, once, and is not queried again; and the function does not
\* return while a tracked id is still pending.
C6_MonitorRecordsOnce == [](C6_StateInv) /\ [][C6_StepInv]_vars

\* two tracked jobs seen in different final states, and the function returned
C6_Witness ==
    /\ mj_pc = "returned"
    /\ mj_completed_jobs = <<1>>
    /\ mj_failed_jobs = <<2>>
    /\ mj_platform[2] = "partially failed"

MjAllFinal == \A j \in mj_tracked : mj_platform[j] \in MonitorFinalStates

MaxChildren == 2

DlProjects == {"project-a", "project-b"}

\* the execution states check_job_state assumes
ExecutionStates ==
    {"idle", "waiting_on_input", "runnable", "running", "waiting_on_output", "done",
     "restarted", "restartable", "debug_hold", "failed", "terminating", "terminated"}

\* the mutation: a running job is not counted as in progress
in_progress_states_without_running ==
    {"idle", "waiting_on_input", "runnable", "waiting_on_output", "restarted", "restartable"}

in_progress_states ==
    {"idle", "waiting_on_input", "runnable", "running", "waiting_on_output",
     "restarted", "restartable"}

failed_states == {"debug_hold", "failed", "terminating", "terminated"}

\* a described child job: its project, its state and whether its output
\* yields a file to download (a report with variants, an artemis links file)
ChildDetails == [project : DlProjects, state : ExecutionStates, has_files : BOOLEAN]

\* the indexes of the jobs of a list in one of the given states
jobs_in(jobs, states) == {i \in 1..Len(jobs) : jobs[i].state \in states}

check_job_state(jobs) ==
    [in_progress |-> jobs_in(jobs, in_progress_states),
     failed |-> jobs_in(jobs, failed_states),
     done |-> jobs_in(jobs, {"done"})]

\* the keys of the grouping by project, in order of first appearance
RECURSIVE project_order(_, _)
project_order(jobs, seen) ==
    IF jobs = <<>> THEN <<>>
    ELSE IF Head(jobs).project \in seen THEN project_order(Tail(jobs), seen)
    ELSE <<Head(jobs).project>> \o project_order(Tail(jobs), seen \cup {Head(jobs).project})

group_dx_objects_by_project(jobs) == project_order(jobs, {})

\* the jobs of one project whose files are selected for download
files_to_download(jobs, project) ==
    {i \in 1..Len(jobs) : jobs[i].project = project /\ jobs[i].has_files}

DownloadInit ==
    /\ dl_pc = "start"
    /\ dl_job_details \in BoundedSeq(ChildDetails, MaxChildren)
    /\ dl_all_job_states = None
    /\ dl_todo = <<>>
    /\ dl_dirs = {}
    /\ dl_downloaded = {}

\* from reading the log to the check of the job states: exit when a job is
\* in progress, else group the jobs by project
DlCheckStates ==
    /\ dl_pc = "start"
    /\ LET all_job_states == check_job_state(dl_job_details)
       IN /\ dl_all_job_states' = Some(all_job_states)
          /\ IF all_job_states.in_progress # {}
             THEN /\ dl_pc' = "exit0"
                  /\ dl_todo' = <<>>
             ELSE /\ dl_pc' = "download"
                  /\ dl_todo' = group_dx_objects_by_project(dl_job_details)
    /\ UNCHANGED <<dl_job_details, dl_dirs, dl_downloaded>>
    /\ dlFrame

\* reading the log or describing the jobs raises
DlDescribeRaises ==
    /\ dl_pc = "start"
    /\ dl_pc' = "raised"
    /\ UNCHANGED <<dl_job_details, dl_all_job_states, dl_todo, dl_dirs, dl_downloaded>>
    /\ dlFrame

\* one iteration of the loop over the projects
DlProject ==
    /\ dl_pc = "download"
    /\ dl_todo # <<>>
    /\ LET project_id == Head(dl_todo)
           ids == files_to_download(dl_job_details, project_id)
       IN IF ids = {}
          THEN UNCHANGED <<dl_dirs, dl_downloaded>>
          ELSE /\ dl_dirs' = dl_dirs \cup {project_id}
               /\ dl_downloaded' = dl_downloaded \cup ids
    /\ dl_todo' = Tail(dl_todo)
    /\ UNCHANGED <<dl_pc, dl_job_details, dl_all_job_states>>
    /\ dlFrame

DlReturn ==
    /\ dl_pc = "download"
    /\ dl_todo = <<>>
    /\ dl_pc' = "returned"
    /\ UNCHANGED <<dl_job_details, dl_all_job_states, dl_todo, dl_dirs, dl_downloaded>>
    /\ dlFrame

DownloadNext == DlCheckStates \/ DlDescribeRaises \/ DlProject \/ DlReturn

InitDownload == DownloadInit /\ dlOthersIdle

SpecDownload == InitDownload /\ [][DownloadNext]_vars

\* ---- properties of download_all_reports

DlNothingDownloaded == dl_dirs = {} /\ dl_downloaded = {}

DlSomeChildIn(states) == \E i \in 1..Len(dl_job_details) : dl_job_details[i].state \in states

\* the states after which a job does not change any more
DlTerminalStates == {"done", "failed", "terminated"}

\* the states the exit is promised for
DlStillInProgress ==
    {"idle", "waiting_on_input", "runnable", "running", "waiting_on_output",
     "restarted", "restartable"}

\* C8: while a child job is in one of the seven in-progress states (idle,
\* waiting_on_input, runnable, running, waiting_on_output, restarted,
\* restartable) no directory is created and nothing is downloaded, and the
\* check of the job states ends the process with exit code 0.
C8_NoDownloadInProgress ==
    DlSomeChildIn(DlStillInProgress) =>
        /\ DlNothingDownloaded
        /\ dl_pc \in {"start", "exit0", "raised"}
        /\ dl_all_job_states # None => dl_pc = "exit0"

\* the process has exited on a running child while another child is done and
\* has files to download
C8_Witness ==
    /\ dl_pc = "exit0"
    /\ \E i, j \in 1..Len(dl_job_details) :
          /\ dl_job_details[i].state = "running"
          /\ dl_job_details[j].state = "done"
          /\ dl_job_details[j].has_files

\* C8 as stated: no directory and no download while any child job is not in
\* a terminal state
C8_Original ==
    DlSomeChildIn(ExecutionStates \ DlTerminalStates) => DlNothingDownloaded

(***************************************************************************)
(* dx_manage.unarchive_files                                               *)
(***************************************************************************)

\* number of archived files listed for one project
MaxArchivedFiles == 2

UaProjects == {"project-a", "project-b"}

UaFileIds == {"file-1", "file-2"}

\* the archived file objects of one project
UaFileObjects(project) == [id : UaFileIds, project : {project}]

\* the text of the exception project_unarchive raises
UaErrors == {"someDNAnexusAPIError", "PermissionDenied"}

\* a dict project -> files as its items in insertion order: no key twice
UaMappings ==
    {m \in BoundedSeq(UNION {{<<p, fs>> : fs \in BoundedSeq(UaFileObjects(p), MaxArchivedFiles)} :
                                p \in UaProjects},
                      Cardinality(UaProjects)) :
        \A i, j \in 1..Len(m) : m[i][1] = m[j][1] => i = j}

\* the mutation: the first file of a project is left out of the call
file_ids_without_first(files) ==
    IF files = <<>> THEN <<>> ELSE [i \in 1..(Len(files) - 1) |-> files[i + 1].id]

\* [x['id'] for x in files]
file_ids(files) == [i \in 1..Len(files) |-> files[i].id]

UnarchiveInit ==
    /\ ua_pc = "loop"
    /\ ua_project_files \in UaMappings
    /\ ua_next = 1
    /\ ua_files = None
    /\ ua_calls = <<>>
    /\ ua_printed = None
    /\ ua_message = None

\* one iteration of the loop: the call for the next project succeeds
UaCallSucceeds ==
    /\ ua_pc = "loop"
    /\ ua_next <= Len(ua_project_files)
    /\ LET project == ua_project_files[ua_next][1]
           files == ua_project_files[ua_next][2]
       IN /\ ua_files' = Some(files)
          /\ ua_calls' = Append(ua_calls, [project |-> project, files |-> file_ids(files)])
    /\ ua_next' = ua_next + 1
    /\ UNCHANGED <<ua_pc, ua_project_files, ua_printed, ua_message>>
    /\ uaFrame

\* one iteration of the loop: the call raises; the handler prints
\* files[0]['project'] with the error (IndexError on an empty list) and
\* raises RuntimeError(f"Error unarchiving files: {error}")
UaCallRaises ==
    /\ ua_pc = "loop"
    /\ ua_next <= Len(ua_project_files)
    /\ \E error \in UaErrors :
         LET project == ua_project_files[ua_next][1]
             files == ua_project_files[ua_next][2]
         IN /\ ua_files' = Some(files)
            /\ ua_calls' = Append(ua_calls, [project |-> project, files |-> file_ids(files)])
            /\ IF files = <<>>
               THEN /\ ua_pc' = "IndexError"
                    /\ UNCHANGED <<ua_printed, ua_message>>
               ELSE /\ ua_pc' = "RuntimeError"
                    /\ ua_printed' = Some(files[1].project)
                    /\ ua_message' = Some(<<"Error unarchiving files: ", error>>)
    /\ UNCHANGED <<ua_project_files, ua_next>>
    /\ uaFrame

\* after the loop: the prints, of which the first reads files, then exit()
UaExit ==
    /\ ua_pc = "loop"
    /\ ua_next > Len(ua_project_files)
    /\ ua_pc' = IF ua_files = None THEN "UnboundLocalError" ELSE "exit0"
    /\ UNCHANGED <<ua_project_files, ua_next, ua_files, ua_calls, ua_printed, ua_message>>
    /\ uaFrame

UnarchiveNext == UaCallSucceeds \/ UaCallRaises \/ UaExit

InitUnarchive == UnarchiveInit /\ uaOthersIdle

SpecUnarchive == InitUnarchive /\ [][UnarchiveNext]_vars

\* ---- properties of unarchive_files

\* the ids listed for the item at position i of the mapping
UaListedIds(i) ==
    [k \in 1..Len(ua_project_files[i][2]) |-> ua_project_files[i][2][k].id]

UaLoopDone == ua_pc = "loop" /\ ua_next > Len(ua_project_files)

\* C9: the calls issued are one per project of the mapping, in its order,
\* each with exactly the file ids listed for that project; once every call
\* has succeeded all projects have had their call and the function ends the
\* process (exit code 0; with an empty mapping by an exception of the final
\* print) - it has no state in which it has returned to its caller.
C9_UnarchiveCallsThenExit ==
    /\ Len(ua_calls) <= Len(ua_project_files)
    /\ \A i \in 1..Len(ua_calls) :
          /\ ua_calls[i].project = ua_project_files[i][1]
          /\ ua_calls[i].files = UaListedIds(i)
    /\ ua_pc \in {"loop", "exit0", "RuntimeError", "IndexError", "UnboundLocalError"}
    /\ (UaLoopDone \/ ua_pc \in {"exit0", "UnboundLocalError"}) =>
          Len(ua_calls) = Len(ua_project_files)
    /\ ua_pc = "exit0" => ua_project_files # <<>>
    /\ ua_pc = "UnboundLocalError" => ua_project_files = <<>>

\* the project_unarchive call of the last item reached has raised
UaCallRaised == ua_pc \in {"RuntimeError", "IndexError"}

\* C19 as stated: when project_unarchive raises for a project, the function
\* raises a RuntimeError whose message names that project, no call is made
\* for the projects after it in the mapping, and the process is not exited.
C19_ErrorNamesProject ==
    UaCallRaised =>
        /\ ua_pc = "RuntimeError"
        /\ ua_message # None
        /\ \E k \in 1..Len(Val(ua_message)) :
              Val(ua_message)[k] = ua_project_files[ua_next][1]
        /\ Len(ua_calls) = ua_next

\* what the error path does: the call that raised is the last one made, the
\* RuntimeError carries the text of the error after a fixed prefix, and the
\* project is named in the printed line only
UaErrorPath ==
    UaCallRaised =>
        /\ Len(ua_calls) = ua_next
        /\ ua_calls[ua_next].project = ua_project_files[ua_next][1]
        /\ ua_pc = "RuntimeError" =>
              /\ ua_printed = Some(ua_project_files[ua_next][1])
              /\ Len(Val(ua_message)) = 2
              /\ Val(ua_message)[2] \in UaErrors
        /\ ua_pc = "IndexError" => ua_project_files[ua_next][2] = <<>>

\* two projects, one with two files, both calls made and the process exited
C9_Witness ==
    /\ ua_pc = "exit0"
    /\ Len(ua_calls) = 2
    /\ Len(ua_calls[1].files) = 2
    /\ ua_calls[1].files[1] # ua_calls[1].files[2]

(***************************************************************************)
(* utils.write_to_log                                                      *)
(***************************************************************************)

\* number of write_to_log calls made on the log file
MaxLogCalls == 2

\* the keys main writes
LogKeys == {"dias_batch", "dias_reports", "eggd_artemis"}

LogJobIdLists == {<<>>, <<"job-1">>, <<"job-2">>, <<"job-1", "job-2">>}

\* a JSON object: (key, value) pairs, no key twice
LogObjects ==
    {o \in BoundedSeq(LogKeys \X LogJobIdLists, Cardinality(LogKeys)) :
        \A i, j \in 1..Len(o) : o[i][1] = o[j][1] => i = j}

LogHasKey(object, key) == \E i \in 1..Len(object) : object[i][1] = key

LogGet(object, key) == object[CHOOSE i \in 1..Len(object) : object[i][1] = key][2]

\* log_data[key] = job_ids: replaced in place, or added at the end
LogSet(object, key, job_ids) ==
    IF LogHasKey(object, key)
    THEN [i \in 1..Len(object) |-> IF object[i][1] = key THEN <<key, job_ids>> ELSE object[i]]
    ELSE Append(object, <<key, job_ids>>)

\* the mutation: the existing file is not read
load_log_data_ignoring_file(file) == <<>>

\* json.load of the file when it exists, else {}
load_log_data(file) == IF file = None THEN <<>> ELSE Val(file)

\* the file after the call
write_to_log(file, key, job_ids) == Some(LogSet(load_log_data(file), key, job_ids))

LogInit ==
    /\ wl_file \in {None} \cup {Some(o) : o \in LogObjects}
    /\ wl_initial = wl_file
    /\ wl_written = EmptyDict
    /\ wl_calls = 0
    /\ wl_result = "ready"

\* a call with a log file name that ends with .json
WriteToLog ==
    /\ wl_calls < MaxLogCalls
    /\ \E key \in LogKeys, job_ids \in LogJobIdLists :
          /\ wl_file' = write_to_log(wl_file, key, job_ids)
          /\ wl_written' = DictSet(wl_written, key, job_ids)
    /\ wl_calls' = wl_calls + 1
    /\ wl_result' = "written"
    /\ UNCHANGED wl_initial
    /\ wlFrame

\* a call with another file name: the assert fails before the file is read
WriteToLogNotJson ==
    /\ wl_calls < MaxLogCalls
    /\ wl_calls' = wl_calls + 1
    /\ wl_result' = "AssertionError"
    /\ UNCHANGED <<wl_file, wl_initial, wl_written>>
    /\ wlFrame

LogNext == WriteToLog \/ WriteToLogNotJson

InitLog == LogInit /\ wlOthersIdle

SpecLog == InitLog /\ [][LogNext]_vars

\* ---- properties of write_to_log

WlObject(file) == IF file = None THEN <<>> ELSE Val(file)

WlKeys(file) == {WlObject(file)[i][1] : i \in 1..Len(WlObject(file))}

WlSameAt(file1, file2, key) ==
    /\ key \in WlKeys(file1) <=> key \in WlKeys(file2)
    /\ key \in WlKeys(file1) => LogGet(WlObject(file1), key) = LogGet(WlObject(file2), key)

C10_StateInv ==
    \* a key that was written maps to the job ids of its last call
    /\ \A key \in DOMAIN wl_written :
          /\ key \in WlKeys(wl_file)
          /\ LogGet(WlObject(wl_file), key) = wl_written[key]
    \* any other key is there as it was before the first call, or not at all
    /\ \A key \in LogKeys \ DOMAIN wl_written : WlSameAt(wl_file, wl_initial, key)
    \* no key twice
    /\ \A i, j \in 1..Len(WlObject(wl_file)) :
          WlObject(wl_file)[i][1] = WlObject(wl_file)[j][1] => i = j
    \* the file exists once a call has written
    /\ DOMAIN wl_written # {} => wl_file # None

C10_StepInv ==
    \* one call changes the value of at most one key, and removes none
    /\ \A k1, k2 \in LogKeys :
          (~WlSameAt(wl_file, wl_file', k1) /\ ~WlSameAt(wl_file, wl_file', k2)) => k1 = k2
    /\ WlKeys(wl_file) \subseteq WlKeys(wl_file')
    \* a call on an absent file leaves a file with one key
    /\ (wl_file = None /\ wl_file' # None) => Len(Val(wl_file')) = 1

\* C10: after any sequence of write_to_log calls the log file maps every key
\* written to the job ids of the last call for that key and every other key
\* to what it held before; one call changes only the value of its key and a
\* call on an absent file creates a file with that key alone.
C10_LogMergeOnWrite == [](C10_StateInv) /\ [][C10_StepInv]_vars

\* a file that held dias_batch and dias_reports, after a call that replaced
\* dias_batch and a call that added eggd_artemis
C10_Witness ==
    /\ wl_calls = 2
    /\ wl_initial = Some(<< <<"dias_batch", <<"job-1">> >>, <<"dias_reports", <<"job-2">> >> >>)
    /\ wl_file = Some(<< <<"dias_batch", <<"job-2">> >>, <<"dias_reports", <<"job-2">> >>,
                        <<"eggd_artemis", <<>> >> >>)

(***************************************************************************)
(* run_reports.configure_inputs: the check of every project, the manual    *)
(* review, and what main does with the returned bundles                    *)
(***************************************************************************)

CiProjects == <<"project-a", "project-b">>

CiProjectName(project) == IF project = "project-a" THEN "002_run_a" ELSE "002_run_b"

Assays == {"CEN", "TWE"}

\* what a search of the platform can return: nothing, one, more than one
CnvJobLists == {<<>>, <<"job-1">>, <<"job-1", "job-2">>}

SingleFolderLists == {<<>>, <<"/output/single-1">>, <<"/output/single-1", "/output/single-2">>}

MultiqcLists == {<<>>, <<"file-mqc-1">>, <<"file-mqc-1", "file-mqc-2">>}

ArchivalStates == {"live", "archival", "archived", "unarchiving"}

FileDetail(id, state) == [id |-> id, archivalState |-> state]

\* the dependent files found: none, one in any state, or an archived one
\* with a second file
FileDetailLists ==
    {<<>>}
    \cup {<<FileDetail("file-1", s)>> : s \in ArchivalStates}
    \cup {<<FileDetail("file-1", "archived"), FileDetail("file-2", s)>> :
             s \in {"live", "archived", "unarchiving"}}

\* the config: no project selected, or project-a with a selected job or path
ManualConfigs ==
    {[cnv_call_jobs |-> EmptyDict, dias_single_paths |-> EmptyDict],
     [cnv_call_jobs |-> DictSet(EmptyDict, "project-a", "job-manual"),
      dias_single_paths |-> EmptyDict],
     [cnv_call_jobs |-> EmptyDict,
      dias_single_paths |-> DictSet(EmptyDict, "project-a", "/output/single-manual")]}

\* get_cnv_call_job, found being what the search returns
get_cnv_call_job(project, selected_jobs, found) ==
    IF project \in DOMAIN selected_jobs THEN <<selected_jobs[project]>> ELSE found

\* get_single_dir: paths project:folder
get_single_dir(project, selected_paths, found) ==
    IF project \in DOMAIN selected_paths
    THEN <<[project |-> project, folder |-> selected_paths[project]]>>
    ELSE [i \in 1..Len(found) |-> [project |-> project, folder |-> found[i]]]

\* the searches that are made, given the config
CnvSearchResults(project, selected_jobs) ==
    IF project \in DOMAIN selected_jobs THEN {<<>>} ELSE CnvJobLists

SingleSearchResults(project, selected_paths) ==
    IF project \in DOMAIN selected_paths THEN {<<>>} ELSE SingleFolderLists

RECURSIVE files_in_state(_, _)
files_in_state(file_details, state) ==
    IF file_details = <<>> THEN <<>>
    ELSE (IF Head(file_details).archivalState = state THEN <<Head(file_details)>> ELSE <<>>)
         \o files_in_state(Tail(file_details), state)

\* the mutation: archived files are not told from the others
check_archival_state_no_archived(file_details) ==
    [live |-> files_in_state(file_details, "live"),
     unarchiving |-> files_in_state(file_details, "unarchiving"),
     archived |-> <<>>]

check_archival_state(file_details) ==
    [live |-> files_in_state(file_details, "live"),
     unarchiving |-> files_in_state(file_details, "unarchiving"),
     archived |-> files_in_state(file_details, "archived")]

\* manual_review[project][key] = value on a defaultdict(dict)
ReviewSet(manual_review, project, key, value) ==
    DictSet(manual_review, project,
            DictSet(IF project \in DOMAIN manual_review THEN manual_review[project]
                    ELSE EmptyDict,
                    key, value))

\* the body of the loop after the three searches, for dias_single_paths
\* that is not empty: <<bundle of the project, manual_review>>
check_project(assay, bundle, manual_review, project_id, cnv_jobs, dias_single_paths, multiqc_report, file_details) ==
    LET review1 ==
            IF Len(cnv_jobs) = 0
            THEN IF assay = "CEN"
                 THEN ReviewSet(manual_review, project_id, "cnv_call", "No CNV call job found")
                 ELSE manual_review
            ELSE IF Len(cnv_jobs) > 1
                 THEN ReviewSet(manual_review, project_id, "cnv_call", cnv_jobs)
                 ELSE manual_review
        bundle1 ==
            IF Len(cnv_jobs) = 1 THEN DictSet(bundle, "cnv_call_job_id", cnv_jobs[1])
            ELSE bundle
        review2 ==
            IF Len(dias_single_paths) > 1
            THEN ReviewSet(review1, project_id, "dias_single", dias_single_paths)
            ELSE review1
        bundle2 ==
            IF Len(dias_single_paths) > 1 THEN bundle1
            ELSE DictSet(bundle1, "dias_single", dias_single_paths[1])
        review3 ==
            IF Len(multiqc_report) = 0 THEN ReviewSet(review2, project_id, "multiqc", None)
            ELSE IF Len(multiqc_report) > 1
                 THEN ReviewSet(review2, project_id, "multiqc", multiqc_report)
                 ELSE review2
        bundle3 ==
            IF Len(multiqc_report) = 1 THEN DictSet(bundle2, "multiqc", multiqc_report[1])
            ELSE bundle2
        states == check_archival_state(file_details)
        review4 ==
            IF states.unarchiving # <<>>
            THEN ReviewSet(review3, project_id, "unarchiving", states.unarchiving)
            ELSE review3
        review5 ==
            IF states.archived # <<>>
            THEN ReviewSet(review4, project_id, "archived", states.archived)
            ELSE review4
        review6 ==
            IF project_id \in DOMAIN review5
            THEN ReviewSet(review5, project_id, "project_name", bundle["project_name"])
            ELSE review5
    IN <<bundle3, review6>>

\* the flagged projects in the order they were added to manual_review
RECURSIVE review_items(_, _)
review_items(projects, manual_review) ==
    IF projects = <<>> THEN <<>>
    ELSE (IF Head(projects) \in DOMAIN manual_review THEN <<Head(projects)>> ELSE <<>>)
         \o review_items(Tail(projects), manual_review)

\* {k: v['archived'] for k, v in manual_review.items()} as its items
archived_project_files(order, manual_review) ==
    [i \in 1..Len(order) |-> <<order[i], manual_review[order[i]]["archived"]>>]

\* group_samples_by_project: the projects with a retained sample, in order
ProjectOrders == {SubSeq(CiProjects, 1, n) : n \in 0..Len(CiProjects)}

ConfigureInit ==
    /\ ci_pc = "loop"
    /\ ci_assay \in Assays
    /\ ci_unarchive \in BOOLEAN
    /\ \E config \in ManualConfigs :
          /\ ci_manual_cnv_call_jobs = config.cnv_call_jobs
          /\ ci_manual_dias_single_paths = config.dias_single_paths
    /\ ci_todo \in ProjectOrders
    /\ ci_project_samples =
          [p \in Range(ci_todo) |-> DictSet(EmptyDict, "project_name", CiProjectName(p))]
    /\ ci_manual_review = EmptyDict
    /\ ci_found = EmptyDict
    /\ ci_unarchive_request = None
    /\ ci_launched = {}

\* one iteration of the loop over project_samples: the three searches, the
\* branches on their results and the check of the archival states;
\* dias_single_paths[0] raises IndexError when no path was found
CiCheckProject ==
    /\ ci_pc = "loop"
    /\ ci_todo # <<>>
    /\ LET project_id == Head(ci_todo)
       IN \E found_jobs \in CnvSearchResults(project_id, ci_manual_cnv_call_jobs),
             found_folders \in SingleSearchResults(project_id, ci_manual_dias_single_paths) :
            LET cnv_jobs == get_cnv_call_job(project_id, ci_manual_cnv_call_jobs, found_jobs)
                dias_single_paths ==
                    get_single_dir(project_id, ci_manual_dias_single_paths, found_folders)
            IN IF dias_single_paths = <<>>
               THEN /\ ci_pc' = "IndexError"
                    /\ ci_found' = DictSet(ci_found, project_id,
                          [cnv_jobs |-> cnv_jobs, dias_single_paths |-> dias_single_paths,
                           multiqc_report |-> <<>>, file_details |-> <<>>, checked |-> FALSE])
                    /\ UNCHANGED <<ci_todo, ci_project_samples, ci_manual_review>>
               ELSE \E multiqc_report \in MultiqcLists, file_details \in FileDetailLists :
                      LET out == check_project(ci_assay, ci_project_samples[project_id],
                                               ci_manual_review, project_id, cnv_jobs,
                                               dias_single_paths, multiqc_report, file_details)
                      IN /\ ci_project_samples' =
                               [ci_project_samples EXCEPT ![project_id] = out[1]]
                         /\ ci_manual_review' = out[2]
                         /\ ci_found' = DictSet(ci_found, project_id,
                               [cnv_jobs |-> cnv_jobs, dias_single_paths |-> dias_single_paths,
                                multiqc_report |-> multiqc_report,
                                file_details |-> file_details, checked |-> TRUE])
                         /\ ci_todo' = Tail(ci_todo)
                         /\ ci_pc' = "loop"
    /\ UNCHANGED <<ci_assay, ci_unarchive, ci_manual_cnv_call_jobs,
                   ci_manual_dias_single_paths, ci_unarchive_request, ci_launched>>
    /\ ciFrame

\* after the loop with an issue recorded: the issues are printed; with the
\* unarchive option the mapping project -> v['archived'] is built (KeyError
\* for a flagged project without archived files) and unarchive_files is
\* called, which exits or raises RuntimeError; without the option, exit()
CiManualReview ==
    /\ ci_pc = "loop"
    /\ ci_todo = <<>>
    /\ DOMAIN ci_manual_review # {}
    /\ LET order == review_items(CiProjects, ci_manual_review)
       IN IF ci_unarchive /\ order # <<>>
          THEN IF \E p \in DOMAIN ci_manual_review : "archived" \notin DOMAIN ci_manual_review[p]
               THEN /\ ci_pc' = "KeyError"
                    /\ UNCHANGED ci_unarchive_request
               ELSE /\ ci_unarchive_request' =
                         Some(archived_project_files(order, ci_manual_review))
                    /\ ci_pc' \in {"exit0", "RuntimeError"}
          ELSE /\ ci_pc' = "exit0"
               /\ UNCHANGED ci_unarchive_request
    /\ UNCHANGED <<ci_assay, ci_unarchive, ci_manual_cnv_call_jobs,
                   ci_manual_dias_single_paths, ci_todo, ci_project_samples,
                   ci_manual_review, ci_found, ci_launched>>
    /\ ciFrame

\* after the loop with no issue recorded: return project_samples
CiReturn ==
    /\ ci_pc = "loop"
    /\ ci_todo = <<>>
    /\ DOMAIN ci_manual_review = {}
    /\ ci_pc' = "returned"
    /\ UNCHANGED <<ci_assay, ci_unarchive, ci_manual_cnv_call_jobs,
                   ci_manual_dias_single_paths, ci_todo, ci_project_samples,
                   ci_manual_review, ci_found, ci_unarchive_request, ci_launched>>
    /\ ciFrame

\* main: the operator confirms and run_all_batch_jobs gets the bundles
CiConfirmAndLaunch ==
    /\ ci_pc = "returned"
    /\ ci_pc' = "launched"
    /\ ci_launched' = DOMAIN ci_project_samples
    /\ UNCHANGED <<ci_assay, ci_unarchive, ci_manual_cnv_call_jobs,
                   ci_manual_dias_single_paths, ci_todo, ci_project_samples,
                   ci_manual_review, ci_found, ci_unarchive_request>>
    /\ ciFrame

\* main: the operator answers no
CiDecline ==
    /\ ci_pc = "returned"
    /\ ci_pc' = "declined"
    /\ UNCHANGED <<ci_assay, ci_unarchive, ci_manual_cnv_call_jobs,
                   ci_manual_dias_single_paths, ci_todo, ci_project_samples,
                   ci_manual_review, ci_found, ci_unarchive_request, ci_launched>>
    /\ ciFrame

ConfigureNext ==
    CiCheckProject \/ CiManualReview \/ CiReturn \/ CiConfirmAndLaunch \/ CiDecline

InitConfigure == ConfigureInit /\ ciOthersIdle

SpecConfigure == InitConfigure /\ [][ConfigureNext]_vars

\* ---- properties of configure_inputs

CiIssueRecorded == DOMAIN ci_manual_review # {}

CiHas(dict, key) == key \in DOMAIN dict

\* the files of a project found in one of the given archival states
CiFilesIn(project, states) ==
    {ci_found[project].file_details[i] :
        i \in {k \in 1..Len(ci_found[project].file_details) :
                  ci_found[project].file_details[k].archivalState \in states}}

\* C1 as stated: once an issue is recorded the function does not return,
\* nothing is launched, and the process ends with exit code 0 and not with
\* an exception (a RuntimeError of a failed unarchive request aside).
C1_IssueMeansCleanExit ==
    CiIssueRecorded =>
        /\ ci_pc \in {"loop", "exit0", "RuntimeError"}
        /\ ci_launched = {}

CiBundleResolved(project) ==
    LET bundle == ci_project_samples[project]
        found == ci_found[project]
    IN /\ CiHas(bundle, "dias_single")
       /\ found.dias_single_paths = <<bundle["dias_single"]>>
       /\ CiHas(bundle, "multiqc")
       /\ found.multiqc_report = <<bundle["multiqc"]>>
       /\ \/ CiHas(bundle, "cnv_call_job_id") /\ found.cnv_jobs = <<bundle["cnv_call_job_id"]>>
          \/ ~CiHas(bundle, "cnv_call_job_id") /\ found.cnv_jobs = <<>> /\ ci_assay # "CEN"
       /\ CiFilesIn(project, {"archived", "unarchiving"}) = {}

CiLoopDone == ci_pc # "IndexError" /\ ci_todo = <<>>

\* C2: every bundle that configure_inputs returns (and that main hands to
\* run_all_batch_jobs) has the one Dias single path found, the one multiQC
\* report found, the one CNV call job found or, when the assay is not CEN,
\* none, and no found file that is archived or unarchiving; and every
\* project checked with an archived file is in manual_review under
\* 'archived' with exactly those files, so that once the loop is done the
\* function does not return.
C2_BundlesResolved ==
    /\ ci_pc \in {"returned", "launched", "declined"} =>
          /\ \A p \in DOMAIN ci_project_samples : p \in DOMAIN ci_found /\ CiBundleResolved(p)
          /\ ci_launched \subseteq DOMAIN ci_project_samples
    /\ \A p \in DOMAIN ci_found :
          (ci_found[p].checked /\ CiFilesIn(p, {"archived"}) # {}) =>
             /\ p \in DOMAIN ci_manual_review
             /\ CiHas(ci_manual_review[p], "archived")
             /\ Range(ci_manual_review[p]["archived"]) = CiFilesIn(p, {"archived"})
             /\ Len(ci_manual_review[p]["archived"]) = Cardinality(CiFilesIn(p, {"archived"}))
             /\ p \notin ci_launched
             /\ CiLoopDone => ci_pc \in {"loop", "exit0", "KeyError", "RuntimeError"}

\* two bundles were handed to the launcher, one resolved through the config
\* and one of an assay that needs no CNV call job
C2_Witness ==
    /\ ci_pc = "launched"
    /\ ci_launched = {"project-a", "project-b"}
    /\ ci_assay = "TWE"
    /\ "project-a" \in DOMAIN ci_manual_dias_single_paths
    /\ ~CiHas(ci_project_samples["project-b"], "cnv_call_job_id")
    /\ Len(ci_found["project-b"].file_details) = 1

(***************************************************************************)
(* utils.write_manifest                                                    *)
(***************************************************************************)

\* number of samples of the project, and of codes booked for one sample
MaxManifestSamples == 2
MaxManifestCodes == 2

ManifestCodes == {"R1.1", "R2.1", "HGNC:1"}

\* the codes of a sample: a list without repeats (list(set(...)) of
\* add_clarity_data_back_to_samples)
ManifestCodeLists ==
    {s \in BoundedSeq(ManifestCodes, MaxManifestCodes) :
        \A i, j \in 1..Len(s) : s[i] = s[j] => i = j}

ManifestSamples ==
    [instrument_id : {"111111"}, specimen_id : {"23251R0041", "23251R0042"},
     codes : ManifestCodeLists]

\* the codes to strip: none, one, two
IgnoreCodeLists == {<<>>, <<"R1.1">>, <<"R2.1">>, <<"R1.1", "HGNC:1">>}

\* a line of the file as its fields, which are written joined by ';'
ManifestHeader ==
    << <<"batch">>,
       <<"Instrument ID", "Specimen ID", "Re-analysis Instrument ID",
         "Re-analysis Specimen ID", "Test Codes">> >>

\* the mutation: no code is left out
kept_codes_all(codes, ignore_codes) == codes

\* [x for x in sample['codes'] if x not in ignore_codes]
RECURSIVE kept_codes(_, _)
kept_codes(codes, ignore_codes) ==
    IF codes = <<>> THEN <<>>
    ELSE (IF InSeq(Head(codes), ignore_codes) THEN <<>> ELSE <<Head(codes)>>)
         \o kept_codes(Tail(codes), ignore_codes)

\* the lines written for one sample
sample_lines(sample, codes) ==
    [i \in 1..Len(codes) |-> <<sample.instrument_id, sample.specimen_id, "", "", codes[i]>>]

RECURSIVE manifest_lines(_, _)
manifest_lines(sample_data, ignore_codes) ==
    IF sample_data = <<>> THEN <<>>
    ELSE sample_lines(Head(sample_data), kept_codes(Head(sample_data).codes, ignore_codes))
         \o manifest_lines(Tail(sample_data), ignore_codes)

write_manifest(sample_data, ignore_codes) ==
    ManifestHeader \o manifest_lines(sample_data, ignore_codes)

ManifestInit ==
    /\ wm_pc = "call"
    /\ wm_sample_data \in BoundedSeq(ManifestSamples, MaxManifestSamples)
    /\ wm_ignore_codes \in IgnoreCodeLists
    /\ wm_manifest = None

WriteManifest ==
    /\ wm_pc = "call"
    /\ wm_manifest' = Some(write_manifest(wm_sample_data, wm_ignore_codes))
    /\ wm_pc' = "returned"
    /\ UNCHANGED <<wm_sample_data, wm_ignore_codes>>
    /\ wmFrame

ManifestNext == WriteManifest

InitManifest == ManifestInit /\ wmOthersIdle

SpecManifest == InitManifest /\ [][ManifestNext]_vars

\* ---- properties of write_manifest

\* the (sample, code) positions whose code is not excluded
WmPairs ==
    {<<i, j>> \in (1..Len(wm_sample_data)) \X (1..MaxManifestCodes + 1) :
        /\ j <= Len(wm_sample_data[i].codes)
        /\ wm_sample_data[i].codes[j] \notin Range(wm_ignore_codes)}

\* the place of a pair in sample order then code order
WmRank(pair) ==
    Cardinality({q \in WmPairs : q[1] < pair[1] \/ (q[1] = pair[1] /\ q[2] <= pair[2])})

\* C11: the manifest is the two header lines followed by one line
\* instrument_id;specimen_id;;;code for every (sample, code) pair whose code
\* is not in the exclusion list, in sample order then code order, and
\* nothing else.
C11_ManifestLines ==
    wm_pc = "returned" =>
        LET lines == Val(wm_manifest)
        IN /\ Len(lines) = 2 + Cardinality(WmPairs)
           /\ lines[1] = <<"batch">>
           /\ lines[2] = <<"Instrument ID", "Specimen ID", "Re-analysis Instrument ID",
                           "Re-analysis Specimen ID", "Test Codes">>
           /\ \A pair \in WmPairs :
                 lines[2 + WmRank(pair)] =
                    <<wm_sample_data[pair[1]].instrument_id,
                      wm_sample_data[pair[1]].specimen_id, "", "",
                      wm_sample_data[pair[1]].codes[pair[2]]>>

\* two samples with two codes each, one code of each excluded
C11_Witness ==
    /\ wm_pc = "returned"
    /\ Len(wm_sample_data) = 2
    /\ \A i \in 1..2 : Len(wm_sample_data[i].codes) = 2
    /\ wm_sample_data[1].specimen_id # wm_sample_data[2].specimen_id
    /\ wm_ignore_codes = <<"R1.1">>
    /\ Len(Val(wm_manifest)) = 4

(***************************************************************************)
(* dx_manage.find_in_parallel                                              *)
(***************************************************************************)

\* items[i:i + 100]
ChunkSize == 100

\* lengths of the term list: around the chunk size and twice the chunk size
TermCounts == {0, 1, 99, 100, 101, 200, 201}

\* the terms of a list of length n; a term is named by its place
TermList(n) == [i \in 1..n |-> i]

\* Python's items[a:b] with 0 <= a, as a sequence (a and b count from 0)
Slice(items, a, b) == SubSeq(items, a + 1, Min(b, Len(items)))

\* the mutation: the last, shorter chunk is dropped
chunk_items_full_only(items) ==
    [k \in 1..(Len(items) \div ChunkSize) |->
        Slice(items, (k - 1) * ChunkSize, (k - 1) * ChunkSize + ChunkSize)]

\* [items[i:i + 100] for i in range(0, len(items), 100)]
chunk_items(items) ==
    LET starts == {i \in 0..(Len(items) - 1) : i % ChunkSize = 0}
    IN [k \in 1..Cardinality(starts) |->
           Slice(items, (k - 1) * ChunkSize, (k - 1) * ChunkSize + ChunkSize)]

\* what the search of chunk k can find: no object, one or two
SearchResults(k) == {<<>>, <<[chunk |-> k, file |-> 1]>>,
                     <<[chunk |-> k, file |-> 1], [chunk |-> k, file |-> 2]>>}

FindInit ==
    /\ fp_pc = "submit"
    /\ fp_items \in {TermList(n) : n \in TermCounts}
    /\ fp_chunked_items = <<>>
    /\ fp_futures = EmptyDict
    /\ fp_collected = <<>>
    /\ fp_results = <<>>
    /\ fp_outcome = None

\* the chunks are built and one search per chunk is handed to the pool
FpSubmit ==
    /\ fp_pc = "submit"
    /\ fp_chunked_items' = chunk_items(fp_items)
    /\ fp_futures' = [k \in 1..Len(chunk_items(fp_items)) |->
                         [state |-> "running", result |-> <<>>]]
    /\ fp_pc' = "collect"
    /\ UNCHANGED <<fp_items, fp_collected, fp_results, fp_outcome>>
    /\ fpFrame

\* a search ends in its thread: it returns what it found, or it raises
FpSearchEnds ==
    /\ fp_pc \in {"collect", "raised"}
    /\ \E k \in DOMAIN fp_futures :
          /\ fp_futures[k].state = "running"
          /\ \/ \E found \in SearchResults(k) :
                   fp_futures' = [fp_futures EXCEPT ![k] = [state |-> "done", result |-> found]]
             \/ fp_futures' = [fp_futures EXCEPT ![k] = [state |-> "failed", result |-> <<>>]]
    /\ UNCHANGED <<fp_pc, fp_items, fp_chunked_items, fp_collected, fp_results, fp_outcome>>
    /\ fpFrame

\* the mutation: the exception of a search is swallowed
future_raises_never(future) == FALSE

\* future.result() raises the exception of the search
future_raises(future) == future.state = "failed"

\* one iteration of the loop over as_completed: the result of a finished
\* search is added to results, or its exception is raised
FpCollect ==
    /\ fp_pc = "collect"
    /\ \E k \in DOMAIN fp_futures :
          /\ fp_futures[k].state # "running"
          /\ ~InSeq(k, fp_collected)
          /\ fp_collected' = Append(fp_collected, k)
          /\ IF future_raises(fp_futures[k])
             THEN /\ fp_pc' = "raised"
                  /\ fp_outcome' = Some(k)
                  /\ UNCHANGED fp_results
             ELSE /\ fp_results' = fp_results \o fp_futures[k].result
                  /\ UNCHANGED <<fp_pc, fp_outcome>>
    /\ UNCHANGED <<fp_items, fp_chunked_items, fp_futures>>
    /\ fpFrame

\* every search was yielded: return results
FpReturn ==
    /\ fp_pc = "collect"
    /\ Len(fp_collected) = Len(fp_chunked_items)
    /\ fp_pc' = "returned"
    /\ fp_outcome' = Some(fp_results)
    /\ UNCHANGED <<fp_items, fp_chunked_items, fp_futures, fp_collected, fp_results>>
    /\ fpFrame

FindNext == FpSubmit \/ FpSearchEnds \/ FpCollect \/ FpReturn

InitFind == FindInit /\ fpOthersIdle

SpecFind == InitFind /\ [][FindNext]_vars

\* ---- properties of find_in_parallel

FpSubmitted == fp_pc # "submit"

\* the places (chunk, offset) at which a term is searched for
FpPlacesOf(term) ==
    {<<k, j>> \in (1..Len(fp_chunked_items)) \X (1..ChunkSize) :
        j <= Len(fp_chunked_items[k]) /\ fp_chunked_items[k][j] = term}

RECURSIVE FpSumLen(_)
FpSumLen(k) == IF k = 0 THEN 0 ELSE Len(fp_futures[k].result) + FpSumLen(k - 1)

\* C12: for n terms ceil(n/100) searches are issued, one per chunk, each
\* over 1 to 100 terms, every term in exactly one of them; the returned
\* list holds the results of all searches, each once and whole, chunk
\* after chunk in the order in which the searches were yielded.
C12_ChunkedSearches ==
    /\ FpSubmitted =>
          /\ Len(fp_chunked_items) = (Len(fp_items) + 99) \div 100
          /\ DOMAIN fp_futures = 1..Len(fp_chunked_items)
          /\ \A k \in 1..Len(fp_chunked_items) :
                Len(fp_chunked_items[k]) \in 1..100
          /\ \A i \in 1..Len(fp_items) : Cardinality(FpPlacesOf(fp_items[i])) = 1
    /\ fp_pc = "returned" =>
          /\ fp_outcome = Some(fp_results)
          /\ Range(fp_collected) = DOMAIN fp_futures
          /\ Len(fp_results) = FpSumLen(Len(fp_chunked_items))
          /\ \A k \in DOMAIN fp_futures : \A x \in Range(fp_futures[k].result) :
                Cardinality({i \in 1..Len(fp_results) : fp_results[i] = x}) = 1
          /\ \A i, j \in 1..Len(fp_results) :
                (i < j /\ fp_results[i].chunk = fp_results[j].chunk) =>
                   /\ fp_results[i].file < fp_results[j].file
                   /\ \A m \in i..j : fp_results[m].chunk = fp_results[i].chunk

\* 201 terms in three searches, of which the last was yielded first
C12_Witness ==
    /\ fp_pc = "returned"
    /\ Len(fp_items) = 201
    /\ Len(fp_chunked_items) = 3
    /\ fp_collected[1] = 3
    /\ Len(fp_results) = 4
    /\ fp_results[1].chunk = 3

\* C13: when the search of a chunk raises, the call does not return a list:
\* it has returned only when no search failed, and once the failed search
\* is yielded the call raises the exception of that search, whatever was
\* collected before; the results collected so far are not handed out.
C13_AllOrNothing ==
    /\ fp_pc = "returned" => \A k \in DOMAIN fp_futures : fp_futures[k].state = "done"
    /\ fp_pc = "raised" =>
          /\ fp_outcome # None
          /\ Val(fp_outcome) \in DOMAIN fp_futures
          /\ fp_futures[Val(fp_outcome)].state = "failed"
          /\ fp_collected[Len(fp_collected)] = Val(fp_outcome)
    /\ \A i \in 1..Len(fp_collected) :
          fp_futures[fp_collected[i]].state = "failed" => fp_pc = "raised"

\* two searches were collected with their results before the third raised
C13_Witness ==
    /\ fp_pc = "raised"
    /\ Len(fp_collected) = 3
    /\ Len(fp_results) = 3

(***************************************************************************)
(* utils.call_in_parallel                                                  *)
(***************************************************************************)

\* number of items given to one call
MaxCallItems == 3

CallItemIds == {"file-1", "file-2"}

\* how the call of func on one item ends: with a response, with
\* dxpy.exceptions.ResourceNotFound, or with another exception
CallEndings == {"response", "ResourceNotFound", "Exception"}

\* what func returns for the item at a place of the list
response_of(items, k) == [id |-> items[k], place |-> k]

\* the mutation: a missing object is skipped whatever ignore_missing is
skips_missing_always(ignore_missing, state) == state = "ResourceNotFound"

\* ignore_missing and isinstance(exc, dxpy.exceptions.ResourceNotFound)
skips_missing(ignore_missing, state) == ignore_missing /\ state = "ResourceNotFound"

CallInit ==
    /\ cp_pc = "submit"
    /\ cp_items \in BoundedSeq(CallItemIds, MaxCallItems)
    /\ cp_ignore_missing \in BOOLEAN
    /\ cp_futures = EmptyDict
    /\ cp_collected = <<>>
    /\ cp_results = <<>>
    /\ cp_outcome = None

\* one call of func per item is handed to the pool
CpSubmit ==
    /\ cp_pc = "submit"
    /\ cp_futures' = [k \in 1..Len(cp_items) |-> "running"]
    /\ cp_pc' = "collect"
    /\ UNCHANGED <<cp_items, cp_ignore_missing, cp_collected, cp_results, cp_outcome>>
    /\ cpFrame

\* a call ends in its thread
CpCallEnds ==
    /\ cp_pc \in {"collect", "raised"}
    /\ \E k \in DOMAIN cp_futures :
          /\ cp_futures[k] = "running"
          /\ \E ending \in CallEndings : cp_futures' = [cp_futures EXCEPT ![k] = ending]
    /\ UNCHANGED <<cp_pc, cp_items, cp_ignore_missing, cp_collected, cp_results, cp_outcome>>
    /\ cpFrame

\* one iteration of the loop over as_completed
CpCollect ==
    /\ cp_pc = "collect"
    /\ \E k \in DOMAIN cp_futures :
          /\ cp_futures[k] # "running"
          /\ ~InSeq(k, cp_collected)
          /\ cp_collected' = Append(cp_collected, k)
          /\ IF cp_futures[k] = "response"
             THEN /\ cp_results' = Append(cp_results, response_of(cp_items, k))
                  /\ UNCHANGED <<cp_pc, cp_outcome>>
             ELSE IF skips_missing(cp_ignore_missing, cp_futures[k])
                  THEN UNCHANGED <<cp_pc, cp_outcome, cp_results>>
                  ELSE /\ cp_pc' = "raised"
                       /\ cp_outcome' = Some(k)
                       /\ UNCHANGED cp_results
    /\ UNCHANGED <<cp_items, cp_ignore_missing, cp_futures>>
    /\ cpFrame

\* every call was yielded: return results
CpReturn ==
    /\ cp_pc = "collect"
    /\ Len(cp_collected) = Len(cp_items)
    /\ cp_pc' = "returned"
    /\ cp_outcome' = Some(cp_results)
    /\ UNCHANGED <<cp_items, cp_ignore_missing, cp_futures, cp_collected, cp_results>>
    /\ cpFrame

CallNext == CpSubmit \/ CpCallEnds \/ CpCollect \/ CpReturn

InitCall == CallInit /\ cpOthersIdle

SpecCall == InitCall /\ [][CallNext]_vars

\* ---- properties of call_in_parallel

CpPlaces(endings) == {k \in DOMAIN cp_futures : cp_futures[k] \in endings}

\* C14: when the call returns, the list holds exactly one response per item
\* whose call gave a response and nothing else, and every other item ended
\* with 'resource not found' under ignore_missing=True; when the yielded
\* call ended with another exception, or with 'resource not found' under
\* ignore_missing=False, the call raises that exception and returns no list.
C14_IgnoreMissingOnly ==
    /\ cp_pc = "returned" =>
          /\ cp_outcome = Some(cp_results)
          /\ Len(cp_results) = Cardinality(CpPlaces({"response"}))
          /\ \A k \in CpPlaces({"response"}) :
                Cardinality({i \in 1..Len(cp_results) :
                                cp_results[i] = [id |-> cp_items[k], place |-> k]}) = 1
          /\ CpPlaces({"Exception"}) = {}
          /\ CpPlaces({"ResourceNotFound"}) # {} => cp_ignore_missing
          /\ CpPlaces({"running"}) = {}
    /\ cp_pc = "raised" =>
          /\ cp_outcome # None
          /\ Val(cp_outcome) \in DOMAIN cp_futures
          /\ \/ cp_futures[Val(cp_outcome)] = "Exception"
             \/ cp_futures[Val(cp_outcome)] = "ResourceNotFound" /\ ~cp_ignore_missing
    /\ \A i \in 1..Len(cp_collected) :
          LET ending == cp_futures[cp_collected[i]]
          IN /\ ending = "Exception" => cp_pc = "raised"
             /\ (ending = "ResourceNotFound" /\ ~cp_ignore_missing) => cp_pc = "raised"
             /\ (ending = "ResourceNotFound" /\ cp_ignore_missing /\ cp_pc = "raised") =>
                   Val(cp_outcome) # cp_collected[i]

\* three items, the object of one not found and skipped, two responses
C14_Witness ==
    /\ cp_pc = "returned"
    /\ cp_ignore_missing
    /\ Len(cp_items) = 3
    /\ cp_futures[2] = "ResourceNotFound"
    /\ Len(cp_results) = 2
    /\ cp_results[1].place = 3

(***************************************************************************)
(* utils.parse_sample_identifiers                                          *)
(***************************************************************************)

\* number of report files found
MaxParseReports == 2

XlsxSuffix == <<".", "x", "l", "s", "x">>

\* report file names, as their characters: 1-2-3_R.xlsx, 1-2-3_S.xlsx,
\* 4-2-3_R.xlsx, 1-2_R.xlsx, X1.xlsx, X1-2.xlsx, X1_2.xlsx and
\* 1-2-3_R.xlsx.b
ReportNames ==
    {<<"1", "-", "2", "-", "3", "_", "R">> \o XlsxSuffix,
     <<"1", "-", "2", "-", "3", "_", "S">> \o XlsxSuffix,
     <<"4", "-", "2", "-", "3", "_", "R">> \o XlsxSuffix,
     <<"1", "-", "2", "_", "R">> \o XlsxSuffix,
     <<"X", "1">> \o XlsxSuffix,
     <<"X", "1", "-", "2">> \o XlsxSuffix,
     <<"X", "1", "_", "2">> \o XlsxSuffix,
     <<"1", "-", "2", "-", "3", "_", "R">> \o XlsxSuffix \o <<".", "b">>}

ParseProjects == {"project-a", "project-b"}

\* \w for the characters the names use
WordChars == DigitChars \cup {"R", "S", "X", "b", "l", "s", "x", "_"}

\* every character of s[a..b] is in the class, and there is at least one
run_of(s, a, b, class) == a <= b /\ \A i \in a..b : s[i] \in class

\* the pattern [\w]+-[\w\-]+_[\w\-\.:]+\.xlsx matches s[1..end]
re_report_name_ends(s, end) ==
    \E a, b, c \in 1..Len(s) :
        /\ run_of(s, 1, a, WordChars)
        /\ a + 1 <= Len(s) /\ s[a + 1] = "-"
        /\ run_of(s, a + 2, b, WordChars \cup {"-"})
        /\ b + 1 <= Len(s) /\ s[b + 1] = "_"
        /\ run_of(s, b + 2, c, WordChars \cup {"-", ".", ":"})
        /\ starts_at(s, c + 1, XlsxSuffix)
        /\ end = c + Len(XlsxSuffix)

\* re.match(r'[\w]+-[\w\-]+_[\w\-\.:]+\.xlsx', name): a match at the start
\* of the name, whatever follows it
re_match_report_name(name) == \E end \in 1..Len(name) : re_report_name_ends(name, end)

\* name.split('-'): the fields between the dashes
RECURSIVE split_dash(_, _)
split_dash(s, field) ==
    IF s = <<>> THEN <<field>>
    ELSE IF Head(s) = "-" THEN <<field>> \o split_dash(Tail(s), <<>>)
    ELSE split_dash(Tail(s), Append(field, Head(s)))

\* the record built from one report
sample_record(report) ==
    [project |-> report.project,
     sample |-> before_underscore(report.name),
     instrument_id |-> split_dash(report.name, <<>>)[1],
     specimen_id |-> split_dash(report.name, <<>>)[2]]

\* ord() of the characters a sample name can hold
CharCode(c) ==
    CASE c = "-" -> 45 [] c = "." -> 46 [] c \in DigitChars -> 48 + (CHOOSE d \in 0..9 : ToString(d) = c)
      [] c = "R" -> 82 [] c = "S" -> 83 [] c = "X" -> 88
      [] c = "b" -> 98 [] c = "l" -> 108 [] c = "s" -> 115 [] c = "x" -> 120

\* a <= b for two strings
RECURSIVE StrLeq(_, _)
StrLeq(a, b) ==
    IF a = <<>> THEN TRUE
    ELSE IF b = <<>> THEN FALSE
    ELSE IF Head(a) = Head(b) THEN StrLeq(Tail(a), Tail(b))
    ELSE CharCode(Head(a)) < CharCode(Head(b))

\* the mutation: every record is kept
dedup_samples_keeps_all(samples) ==
    {[i \in 1..Len(samples) |-> samples[i]]}

\* sorted([dict(s) for s in set(frozenset(d.items()) for d in samples)],
\* key=sample): the lists the call can return - records with the same
\* sample come in the order the set yields them
dedup_samples(samples) ==
    {s \in ListsOf(Range(samples)) :
        \A i, j \in 1..Len(s) : i < j => StrLeq(s[i].sample, s[j].sample)}

\* the names that fail the check, in the order of the reports
RECURSIVE invalid_names(_)
invalid_names(reports) ==
    IF reports = <<>> THEN <<>>
    ELSE (IF re_match_report_name(Head(reports).name) THEN <<>> ELSE <<Head(reports).name>>)
         \o invalid_names(Tail(reports))

ParseInit ==
    /\ ps_pc = "call"
    /\ ps_reports \in BoundedSeq([project : ParseProjects, name : ReportNames], MaxParseReports)
    /\ ps_samples = <<>>
    /\ ps_invalid = <<>>

ParseCall ==
    /\ ps_pc = "call"
    /\ LET invalid == invalid_names(ps_reports)
       IN IF invalid # <<>>
          THEN /\ ps_pc' = "RuntimeError"
               /\ ps_invalid' = invalid
               /\ UNCHANGED ps_samples
          ELSE /\ ps_pc' = "returned"
               /\ ps_samples' \in dedup_samples([i \in 1..Len(ps_reports) |->
                                                   sample_record(ps_reports[i])])
               /\ UNCHANGED ps_invalid
    /\ UNCHANGED ps_reports
    /\ psFrame

ParseNext == ParseCall

InitParse == ParseInit /\ psOthersIdle

SpecParse == InitParse /\ [][ParseNext]_vars

\* ---- properties of parse_sample_identifiers

\* the whole name is of the form <instrument_id>-<specimen_id>_<...>.xlsx
PsWellFormed(name) == re_report_name_ends(name, Len(name))

PsOffending == {i \in 1..Len(ps_reports) : ~PsWellFormed(ps_reports[i].name)}

\* C15 as stated: when a report name is not of the form
\* <instrument_id>-<specimen_id>_<...>.xlsx the call raises RuntimeError,
\* the message names every such file, and no record is returned.
C15_MalformedNameRaises ==
    (ps_pc # "call" /\ PsOffending # {}) =>
        /\ ps_pc = "RuntimeError"
        /\ \A i \in PsOffending : InSeq(ps_reports[i].name, ps_invalid)
        /\ ps_samples = <<>>

\* C16: the returned list holds exactly one record for every tuple
\* (project, sample, instrument_id, specimen_id) that the reports yield,
\* however many reports yield it, and no other record; deduplicating the
\* returned records again gives the same records.
C16_OneRecordPerTuple ==
    ps_pc = "returned" =>
        /\ \A i, j \in 1..Len(ps_samples) : ps_samples[i] = ps_samples[j] => i = j
        /\ \A k \in 1..Len(ps_reports) :
              Cardinality({i \in 1..Len(ps_samples) :
                              ps_samples[i] = sample_record(ps_reports[k])}) = 1
        /\ \A i \in 1..Len(ps_samples) :
              \E k \in 1..Len(ps_reports) : ps_samples[i] = sample_record(ps_reports[k])
        /\ \A s \in dedup_samples(ps_samples) :
              Len(s) = Len(ps_samples) /\ Range(s) = Range(ps_samples)

\* two reports of one sample in one project gave one record
C16_Witness ==
    /\ ps_pc = "returned"
    /\ Len(ps_reports) = 2
    /\ ps_reports[1].name # ps_reports[2].name
    /\ ps_reports[1].project = ps_reports[2].project
    /\ Len(ps_samples) = 1

(***************************************************************************)
(* utils.split_genepanels_test_codes                                       *)
(***************************************************************************)

\* number of rows of the genepanels file
MaxGenepanelRows == 2

\* indications: R1.1_A, R1.1_B, R1.1, C2.1_B and _HGNC:5
SgIndications ==
    {<<"R", "1", ".", "1", "_", "A">>, <<"R", "1", ".", "1", "_", "B">>,
     <<"R", "1", ".", "1">>, <<"C", "2", ".", "1", "_", "B">>,
     <<"_", "H", "G", "N", "C", ":", "5">>}

SgPanelNames == {<<"P", "1">>, <<"P", "2">>}

\* the test codes with more than one indication among the rows
clashing_codes(rows) ==
    {rows[i].test_code : i \in {k \in 1..Len(rows) :
        \E j \in 1..Len(rows) : /\ rows[k].test_code = rows[j].test_code
                                /\ rows[k].indication # rows[j].indication}}

SplitInit ==
    /\ sg_pc = "call"
    /\ sg_genepanels \in BoundedSeq([indication : SgIndications, panel_name : SgPanelNames],
                                    MaxGenepanelRows)
    /\ sg_rows = <<>>
    /\ sg_code = None

\* the call: the loop over the set of test codes raises for the first code
\* it meets that has more than one indication
SplitCall ==
    /\ sg_pc = "call"
    /\ LET out == split_genepanels_test_codes(sg_genepanels)
       IN IF out.error = "RuntimeError"
          THEN /\ sg_pc' = "RuntimeError"
               /\ \E code \in clashing_codes(out.rows) : sg_code' = Some(code)
               /\ UNCHANGED sg_rows
          ELSE /\ sg_pc' = "returned"
               /\ sg_rows' = out.rows
               /\ UNCHANGED sg_code
    /\ UNCHANGED sg_genepanels
    /\ sgFrame

SplitNext == SplitCall

InitSplit == SplitInit /\ sgOthersIdle

SpecSplit == InitSplit /\ [][SplitNext]_vars

\* ---- properties of split_genepanels_test_codes

\* the test code of each indication, written out
SgCodeOf(indication) ==
    CASE indication = <<"_", "H", "G", "N", "C", ":", "5">> -> indication
      [] indication = <<"C", "2", ".", "1", "_", "B">> -> <<"C", "2", ".", "1">>
      [] OTHER -> <<"R", "1", ".", "1">>

\* the indications of the file that a test code stands for
SgIndicationsOf(code) ==
    {sg_genepanels[i].indication :
        i \in {k \in 1..Len(sg_genepanels) : SgCodeOf(sg_genepanels[k].indication) = code}}

SgClash == \E i \in 1..Len(sg_genepanels) :
              Cardinality(SgIndicationsOf(SgCodeOf(sg_genepanels[i].indication))) > 1

\* C17: the call raises RuntimeError exactly when a test code stands for
\* more than one indication, and the code named has more than one;
\* otherwise it returns the rows of the file, none added or removed, in
\* order, each with its test code, and every test code of the returned
\* rows has one indication.
C17_SplitChecksCodes ==
    sg_pc # "call" =>
        /\ sg_pc = "RuntimeError" <=> SgClash
        /\ sg_pc = "RuntimeError" =>
              /\ sg_code # None
              /\ Cardinality(SgIndicationsOf(Val(sg_code))) > 1
              /\ sg_rows = <<>>
        /\ sg_pc = "returned" =>
              /\ Len(sg_rows) = Len(sg_genepanels)
              /\ \A i \in 1..Len(sg_rows) :
                    /\ sg_rows[i].indication = sg_genepanels[i].indication
                    /\ sg_rows[i].panel_name = sg_genepanels[i].panel_name
                    /\ sg_rows[i].test_code = SgCodeOf(sg_genepanels[i].indication)
              /\ \A i, j \in 1..Len(sg_rows) :
                    sg_rows[i].test_code = sg_rows[j].test_code =>
                       sg_rows[i].indication = sg_rows[j].indication

\* R1.1_A and R1.1 stand for the same code: the call raised and named R1.1
C17_Witness ==
    /\ sg_pc = "RuntimeError"
    /\ Len(sg_genepanels) = 2
    /\ sg_genepanels[1].indication = <<"R", "1", ".", "1", "_", "A">>
    /\ sg_genepanels[2].indication = <<"R", "1", ".", "1">>
    /\ sg_code = Some(<<"R", "1", ".", "1">>)

(***************************************************************************)
(* dx_manage.run_batch                                                     *)
(***************************************************************************)

\* Python values of the app input: booleans, strings, platform links
PyBool(b) == <<"bool", IF b THEN "True" ELSE "False">>

PyStr(s) == <<"str", s>>

DxLink(id) == <<"$dnanexus_link", id>>

\* cnv_job: None, an empty string or a job id
RbCnvJobs == {None, PyStr(""), PyStr("job-1")}

\* --batch_inputs after json.loads: absent, or a dict over inputs of the app,
\* two of which run_batch computes itself
RbBatchKeys == {"cnv_call_job_id", "multiqc_report", "split_tests"}

RbBatchValues(key) ==
    CASE key = "cnv_call_job_id" -> {PyStr("job-8"), PyStr("job-9")}
      [] key = "multiqc_report" -> {DxLink("file-8"), DxLink("file-9")}
      [] OTHER -> {PyBool(TRUE), PyBool(FALSE)}

RbBatchInputs ==
    {None} \cup
    {Some(d) : d \in UNION {{f \in [keys -> UNION {RbBatchValues(k) : k \in keys}] :
                                \A k \in keys : f[k] \in RbBatchValues(k)} :
                            keys \in SUBSET RbBatchKeys}}

\* Python truth of cnv_job and of batch_inputs
RbTruthy(value) == value # None /\ value # PyStr("") /\ value # Some(EmptyDict)

\* the app input as first built
computed_app_input(args) ==
    [k \in {"cnv_call_job_id", "cnv_reports", "snv_reports", "artemis", "manifest_files",
            "multiqc_report", "single_output_dir", "assay", "testing"} |->
       CASE k = "cnv_call_job_id" -> args.cnv_job
         [] k = "cnv_reports" -> PyBool(RbTruthy(args.cnv_job))
         [] k = "snv_reports" -> PyBool(TRUE)
         [] k = "artemis" -> PyBool(TRUE)
         [] k = "manifest_files" -> <<DxLink(args.manifest)>>
         [] k = "multiqc_report" -> DxLink(args.multiqc_report_id)
         [] k = "single_output_dir" -> PyStr(args.single_path)
         [] k = "assay" -> PyStr(args.assay)
         [] OTHER -> PyBool(args.terminate)]

\* the mutation: on a key of both dicts the computed value is kept
merge_dicts_first_wins(first, second) ==
    [k \in DOMAIN first \cup DOMAIN second |->
        IF k \in DOMAIN first THEN first[k] ELSE second[k]]

\* {**first, **second}
merge_dicts(first, second) ==
    [k \in DOMAIN first \cup DOMAIN second |->
        IF k \in DOMAIN second THEN second[k] ELSE first[k]]

BatchInit ==
    /\ rb_pc = "call"
    /\ rb_args \in [project : {"project-a"}, batch_app_id : {"app-1"}, cnv_job : RbCnvJobs,
                    single_path : {"/output/CEN-1"}, manifest : {"file-1"},
                    multiqc_report_id : {"file-2", "file-9"}, name : {"eggd_dias_batch_1"},
                    batch_inputs : RbBatchInputs, assay : Assays, terminate : BOOLEAN]
    /\ rb_computed = <<>>
    /\ rb_runs = <<>>

\* the whole call: build app_input, merge batch_inputs in, run the app
RunBatch ==
    /\ rb_pc = "call"
    /\ LET app_input == computed_app_input(rb_args)
           merged == IF RbTruthy(rb_args.batch_inputs)
                     THEN merge_dicts(app_input, Val(rb_args.batch_inputs))
                     ELSE app_input
       IN /\ rb_computed' = app_input
          /\ rb_runs' = Append(rb_runs, [app_input |-> merged,
                                         project |-> rb_args.project,
                                         name |-> rb_args.name])
    /\ rb_pc' = "returned"
    /\ UNCHANGED rb_args
    /\ rbFrame

BatchNext == RunBatch

InitBatch == BatchInit /\ rbOthersIdle

SpecBatch == InitBatch /\ [][BatchNext]_vars

\* ---- properties of run_batch

\* the keys run_batch computes
RbComputedKeys ==
    {"cnv_call_job_id", "cnv_reports", "snv_reports", "artemis", "manifest_files",
     "multiqc_report", "single_output_dir", "assay", "testing"}

\* the keys the operator gave
RbOperatorKeys ==
    IF rb_args.batch_inputs = None THEN {} ELSE DOMAIN Val(rb_args.batch_inputs)

\* a CNV call job id was resolved for the project
RbCnvResolved == rb_args.cnv_job \notin {None, PyStr("")}

\* C20: the app input of the one run made holds the computed keys and the
\* operator's keys and no other; each operator key carries the operator's
\* value, each other computed key its computed value; in the computed
\* defaults cnv_reports is true exactly when a CNV call job id was resolved.
C20_BatchInputsMerged ==
    rb_pc = "returned" =>
        /\ Len(rb_runs) = 1
        /\ DOMAIN rb_runs[1].app_input = RbComputedKeys \cup RbOperatorKeys
        /\ \A k \in RbOperatorKeys :
              rb_runs[1].app_input[k] = Val(rb_args.batch_inputs)[k]
        /\ \A k \in RbComputedKeys \ RbOperatorKeys :
              rb_runs[1].app_input[k] = rb_computed[k]
        /\ DOMAIN rb_computed = RbComputedKeys
        /\ rb_computed["cnv_reports"] = PyBool(RbCnvResolved)
        /\ rb_computed["cnv_call_job_id"] = rb_args.cnv_job
        /\ rb_computed["multiqc_report"] = <<"$dnanexus_link", rb_args.multiqc_report_id>>
        /\ rb_computed["manifest_files"] = << <<"$dnanexus_link", rb_args.manifest>> >>

\* the operator replaced the CNV call job id and the multiQC report and added
\* split_tests; no CNV job had been resolved, so cnv_reports stays false
C20_Witness ==
    /\ rb_pc = "returned"
    /\ rb_args.cnv_job = None
    /\ RbOperatorKeys = RbBatchKeys
    /\ rb_runs[1].app_input["cnv_call_job_id"] = <<"str", "job-9">>
    /\ rb_runs[1].app_input["multiqc_report"] = <<"$dnanexus_link", "file-8">>
    /\ rb_runs[1].app_input["cnv_reports"] = <<"bool", "False">>
    /\ rb_runs[1].app_input["split_tests"] = <<"bool", "False">>

\* ---- the dependent files of the launched projects

\* C21 as stated: a project is handed to the launcher only if its required
\* files were found (the search always asks for the excluded-intervals bed
\* at least, so a search that finds nothing has missed a required file) and
\* every file found is live.
C21_LaunchedFilesFoundLive ==
    \A p \in ci_launched :
        /\ ci_found[p].file_details # <<>>
        /\ \A i \in 1..Len(ci_found[p].file_details) :
              ci_found[p].file_details[i].archivalState = "live"

(***************************************************************************)
(* utils.filter_reports_with_variants                                      *)
(***************************************************************************)

\* number of report workflows of one category in a project
MaxFilterReports == 2

\* the output field of the workbook (report_field) and of the coverage report
FrReportField == "stage-rpt_generate_workbook.xlsx_report"

FrCoverageField == "stage-rpt_athena.report"

FrXlsxId(i) == <<"file-xlsx", i>>

FrCoverageId(i) == <<"file-coverage", i>>

\* the output of the i-th workflow: None, or a dict with any of the two fields
FrOutputs(i) ==
    {None} \cup
    {Some([f \in fields |-> IF f = FrReportField THEN FrXlsxId(i) ELSE FrCoverageId(i)]) :
        fields \in SUBSET {FrReportField, FrCoverageField}}

\* the details of a workbook: 'included' and 'variants', either may be absent
FrDetails ==
    UNION {[fields -> {0, 2}] : fields \in SUBSET {"included", "variants"}}

\* job.get('output') and job.get('output').get(report_field)
has_report_output(job, report_field) ==
    /\ job.output # None
    /\ Val(job.output) # EmptyDict
    /\ report_field \in DOMAIN Val(job.output)

RECURSIVE xlsx_report_ids(_, _)
xlsx_report_ids(reports, report_field) ==
    IF reports = <<>> THEN <<>>
    ELSE (IF has_report_output(Head(reports), report_field)
          THEN <<Val(Head(reports).output)[report_field]>> ELSE <<>>)
         \o xlsx_report_ids(Tail(reports), report_field)

\* call_in_parallel(dxpy.describe, ids, ignore_missing=True): the
\* descriptions of the ids that exist, here in the order of the ids
RECURSIVE describe_existing(_, _)
describe_existing(ids, platform) ==
    IF ids = <<>> THEN <<>>
    ELSE (IF platform[Head(ids)] = None THEN <<>>
          ELSE <<[id |-> Head(ids), details |-> Val(platform[Head(ids)])]>>)
         \o describe_existing(Tail(ids), platform)

\* the orders in which the descriptions can complete
FrOrderings(s) ==
    {[i \in DOMAIN s |-> s[perm[i]]] :
        perm \in {f \in [DOMAIN s -> DOMAIN s] : \A i, j \in DOMAIN s : f[i] = f[j] => i = j}}

\* the mutation: only the 'included' count is looked at
details_count_included_only(details, field) ==
    IF field = "included" /\ field \in DOMAIN details THEN details[field] ELSE 0

\* x['details'].get(field, 0)
details_count(details, field) ==
    IF field \in DOMAIN details THEN details[field] ELSE 0

\* [x['id'] for x in xlsx_details for field in ['included', 'variants'] if ...]
RECURSIVE xlsx_w_variants(_)
xlsx_w_variants(xlsx_details) ==
    IF xlsx_details = <<>> THEN <<>>
    ELSE LET x == Head(xlsx_details)
         IN (IF details_count(x.details, "included") > 0 THEN <<x.id>> ELSE <<>>)
            \o (IF details_count(x.details, "variants") > 0 THEN <<x.id>> ELSE <<>>)
            \o xlsx_w_variants(Tail(xlsx_details))

RECURSIVE workflows_w_variants(_, _, _)
workflows_w_variants(reports, report_field, with_variants) ==
    IF reports = <<>> THEN <<>>
    ELSE (IF /\ Head(reports).output # None
             /\ Val(Head(reports).output) # EmptyDict
             /\ report_field \in DOMAIN Val(Head(reports).output)
             /\ InSeq(Val(Head(reports).output)[report_field], with_variants)
          THEN <<Head(reports)>> ELSE <<>>)
         \o workflows_w_variants(Tail(reports), report_field, with_variants)

\* xlsx_ids + coverage_ids with the None values dropped
RECURSIVE coverage_ids(_)
coverage_ids(workflows) ==
    IF workflows = <<>> THEN <<>>
    ELSE (IF FrCoverageField \in DOMAIN Val(Head(workflows).output)
          THEN <<Val(Head(workflows).output)[FrCoverageField]>> ELSE <<>>)
         \o coverage_ids(Tail(workflows))

filter_reports_with_variants(reports, report_field, xlsx_details) ==
    LET workflows == workflows_w_variants(reports, report_field, xlsx_w_variants(xlsx_details))
    IN [i \in 1..Len(workflows) |-> Val(workflows[i].output)[report_field]]
       \o coverage_ids(workflows)

FilterReportsInit ==
    /\ fr_pc = "call"
    /\ \E n \in 0..MaxFilterReports :
          /\ fr_reports \in {r \in [1..n -> [id : {<<"analysis", i>> : i \in 1..n},
                                             output : UNION {FrOutputs(i) : i \in 1..n}]] :
                                \A i \in 1..n : /\ r[i].id = <<"analysis", i>>
                                                /\ r[i].output \in FrOutputs(i)}
          /\ fr_platform \in [{FrXlsxId(i) : i \in 1..n} -> {None} \cup {Some(d) : d \in FrDetails}]
    /\ fr_file_ids = <<>>

\* the whole call; the descriptions arrive in any order
FilterReports ==
    /\ fr_pc = "call"
    /\ \E xlsx_details \in
            FrOrderings(describe_existing(xlsx_report_ids(fr_reports, FrReportField), fr_platform)) :
          fr_file_ids' = filter_reports_with_variants(fr_reports, FrReportField, xlsx_details)
    /\ fr_pc' = "returned"
    /\ UNCHANGED <<fr_reports, fr_platform>>
    /\ frFrame

FilterReportsNext == FilterReports

InitFilterReports == FilterReportsInit /\ frOthersIdle

SpecFilterReports == InitFilterReports /\ [][FilterReportsNext]_vars

\* ---- properties of filter_reports_with_variants

\* workflow i has a workbook that still exists and counts a retained finding
FrWithFindings(i) ==
    /\ fr_reports[i].output # None
    /\ FrReportField \in DOMAIN Val(fr_reports[i].output)
    /\ fr_platform[FrXlsxId(i)] # None
    /\ \E f \in DOMAIN Val(fr_platform[FrXlsxId(i)]) : Val(fr_platform[FrXlsxId(i)])[f] > 0

FrHasCoverage(i) == FrCoverageField \in DOMAIN Val(fr_reports[i].output)

FrKept == {i \in 1..Len(fr_reports) : FrWithFindings(i)}

\* C22: the returned ids are the workbook id of exactly the workflows whose
\* workbook exists and counts a finding under 'included' or 'variants',
\* each once and in the order of the workflows, followed by the coverage
\* report id of those of them that have one; no other workflow contributes
\* an id.
C22_ReportsWithVariants ==
    fr_pc = "returned" =>
        LET n == Cardinality(FrKept)
        IN /\ Len(fr_file_ids) = n + Cardinality({i \in FrKept : FrHasCoverage(i)})
           /\ {fr_file_ids[k] : k \in 1..n} = {<<"file-xlsx", i>> : i \in FrKept}
           /\ {fr_file_ids[k] : k \in (n + 1)..Len(fr_file_ids)} =
                 {<<"file-coverage", i>> : i \in {j \in FrKept : FrHasCoverage(j)}}
           /\ \A k, l \in 1..Len(fr_file_ids) :
                 (k < l /\ (l <= n \/ k > n)) => fr_file_ids[k][2] < fr_file_ids[l][2]

\* of two workflows the first has a workbook with findings under 'variants'
\* only and a coverage report; the workbook of the second was deleted
C22_Witness ==
    /\ fr_pc = "returned"
    /\ Len(fr_reports) = 2
    /\ fr_file_ids = << <<"file-xlsx", 1>>, <<"file-coverage", 1>> >>
    /\ fr_platform[<<"file-xlsx", 1>>] = Some([f \in {"included", "variants"} |->
                                                  IF f = "variants" THEN 2 ELSE 0])
    /\ fr_reports[2].output # None
    /\ FrReportField \in DOMAIN Val(fr_reports[2].output)
    /\ fr_platform[<<"file-xlsx", 2>>] = None

\* ---- the unarchive request of configure_inputs

\* the checked projects with at least one archived file
CiArchivedProjects ==
    {p \in DOMAIN ci_found : ci_found[p].checked /\ CiFilesIn(p, {"archived"}) # {}}

\* the manual review has been gone through with the unarchive option set
CiReviewedWithUnarchive ==
    /\ CiIssueRecorded
    /\ ci_unarchive
    /\ ci_pc \in {"exit0", "RuntimeError", "KeyError"}

\* C23 as stated: with the unarchive option and issues recorded, the request
\* names exactly the projects with an archived file and exactly their
\* archived files; flagged projects without one raise no exception, and
\* with no archived file anywhere nothing is requested.
C23_UnarchiveOnlyArchived ==
    CiReviewedWithUnarchive =>
        /\ ci_pc # "KeyError"
        /\ CiArchivedProjects = {} => ci_unarchive_request = None
        /\ CiArchivedProjects # {} =>
              /\ ci_unarchive_request # None
              /\ {Val(ci_unarchive_request)[i][1] : i \in 1..Len(Val(ci_unarchive_request))}
                    = CiArchivedProjects
              /\ \A i \in 1..Len(Val(ci_unarchive_request)) :
                    Range(Val(ci_unarchive_request)[i][2]) =
                       CiFilesIn(Val(ci_unarchive_request)[i][1], {"archived"})

(***************************************************************************)
(* run_reports.configure_inputs: from the reports found on the platform to *)
(* the project bundles (filter, merge with Clarity, group by project)      *)
(***************************************************************************)

\* number of sample records parsed from the reports
MaxGroupSamples == 3

\* the records parse_sample_identifiers returns: no record twice
CgReportLists ==
    {s \in BoundedSeq(SampleRecords, MaxGroupSamples) :
        \A i, j \in 1..Len(s) : s[i] = s[j] => i = j}

\* the counts printed by filter_clarity_samples_with_no_reports
filter_clarity_samples_with_no_reports(clarity_samples, samples_w_reports) ==
    LET reports_specimens == {samples_w_reports[i].specimen_id : i \in 1..Len(samples_w_reports)}
    IN <<[line |-> "outstanding samples with no prior reports",
          count |-> Cardinality(clarity_samples \ reports_specimens)],
         [line |-> "samples available to run reports for",
          count |-> Cardinality(clarity_samples \cap reports_specimens)]>>

\* add_clarity_data_back_to_samples raises for a specimen not in Clarity
clarity_data_missing(samples, clarity_data) ==
    \E i \in 1..Len(samples) : samples[i].specimen_id \notin clarity_data

\* the records left by limit_samples and validate_test_codes: a sub-list
RECURSIVE CgSubLists(_)
CgSubLists(samples) ==
    IF samples = <<>> THEN {<<>>}
    ELSE LET rest == CgSubLists(Tail(samples))
         IN rest \cup {<<Head(samples)>> \o s : s \in rest}

\* group_samples_by_project: project -> project_name and samples, in order
group_samples_by_project(samples) ==
    [p \in {samples[i].project : i \in 1..Len(samples)} |->
        [project_name |-> <<"002", p>>,
         samples |-> SubSeqWhere(samples, {r \in SampleRecords : r.project = p})]]

\* the kinds of issue the loop over the projects records
CgIssueKinds == {"cnv_call", "dias_single", "multiqc", "unarchiving", "archived"}

GroupInit ==
    /\ cg_pc = "filter"
    /\ cg_clarity \in {SpecimenIds, {"23251R0041"}}
    /\ cg_reports \in CgReportLists
    /\ cg_samples = <<>>
    /\ cg_non_unique = EmptyDict
    /\ cg_project_samples = EmptyDict
    /\ cg_manual_review = EmptyDict
    /\ cg_stdout = <<>>

\* lines 111-123: the ambiguity filter (its second result is not used
\* again), the counts of Clarity samples with and without reports, and the
\* merge with the Clarity data
CgFilter ==
    /\ cg_pc = "filter"
    /\ LET out == filter_non_unique_specimen_ids(cg_reports)
       IN /\ cg_non_unique' = out.non_unique
          /\ cg_samples' = out.unique
          /\ cg_stdout' = cg_stdout \o
                filter_clarity_samples_with_no_reports(cg_clarity, out.unique)
          /\ cg_pc' = IF clarity_data_missing(out.unique, cg_clarity)
                      THEN "RuntimeError" ELSE "group"
    /\ UNCHANGED <<cg_clarity, cg_reports, cg_project_samples, cg_manual_review>>
    /\ cgFrame

\* lines 125-159: limiting and validation leave a sub-list of the samples
\* (limit_samples ends the process when it selects none), which is grouped
CgGroup ==
    /\ cg_pc = "group"
    /\ \E kept \in CgSubLists(cg_samples) :
          IF kept = <<>> /\ cg_samples # <<>>
          THEN /\ cg_pc' \in {"exit0", "check"}
               /\ cg_samples' = kept
               /\ cg_project_samples' = IF cg_pc' = "check" THEN group_samples_by_project(kept)
                                        ELSE cg_project_samples
          ELSE /\ cg_pc' = "check"
               /\ cg_samples' = kept
               /\ cg_project_samples' = group_samples_by_project(kept)
    /\ UNCHANGED <<cg_clarity, cg_reports, cg_non_unique, cg_manual_review, cg_stdout>>
    /\ cgFrame

\* the lines printed for the flagged projects, in the order of the projects
RECURSIVE issue_lines(_, _, _)
issue_lines(projects, flagged, kind) ==
    IF projects = <<>> THEN <<>>
    ELSE (IF Head(projects) \in flagged
          THEN <<[line |-> "issues with project", project |-> Head(projects), issue |-> kind]>>
          ELSE <<>>)
         \o issue_lines(Tail(projects), flagged, kind)

\* lines 161-277: the loop records issues for some of the projects (or ends
\* with IndexError when a project has no Dias single path); with an issue
\* recorded the issues are printed per project and the process ends
CgCheck ==
    /\ cg_pc = "check"
    /\ \E flagged \in SUBSET DOMAIN cg_project_samples :
       \E kind \in CgIssueKinds :
          /\ cg_manual_review' =
                [p \in flagged |-> [issue |-> kind,
                                    project_name |-> cg_project_samples[p].project_name]]
          /\ \/ /\ cg_project_samples # EmptyDict
                /\ cg_pc' = "IndexError"
                /\ UNCHANGED cg_stdout
             \/ /\ flagged # {}
                /\ cg_stdout' = cg_stdout \o
                      issue_lines(<<"project-xxx", "project-yyy">>, flagged, kind)
                /\ cg_pc' \in {"exit0", "KeyError", "RuntimeError"}
             \/ /\ flagged = {}
                /\ UNCHANGED cg_stdout
                /\ cg_pc' = "returned"
    /\ UNCHANGED <<cg_clarity, cg_reports, cg_samples, cg_non_unique, cg_project_samples>>
    /\ cgFrame

GroupNext == CgFilter \/ CgGroup \/ CgCheck

InitGroup == GroupInit /\ cgOthersIdle

SpecGroup == InitGroup /\ [][GroupNext]_vars

\* ---- properties of the bundles of configure_inputs

\* the specimens named in a printed line or in manual_review
CgReportedSpecimens ==
    {s \in SpecimenIds :
        \/ \E i \in 1..Len(cg_stdout) :
              "specimen_id" \in DOMAIN cg_stdout[i] /\ cg_stdout[i].specimen_id = s
        \/ \E p \in DOMAIN cg_manual_review :
              "specimen_id" \in DOMAIN cg_manual_review[p] /\ cg_manual_review[p].specimen_id = s}

\* the records of a specimen in the bundle of a project
CgInBundle(p, s) ==
    {i \in 1..Len(cg_project_samples[p].samples) :
        cg_project_samples[p].samples[i].specimen_id = s}

CgEnded == cg_pc \in {"returned", "exit0", "KeyError", "RuntimeError", "IndexError"}

\* C24 as stated: when the filter yields a non-empty non-unique bucket, the
\* ambiguous specimens are reported to the operator by the time the function
\* ends, and none of their records is in the sample list of a bundle.
C24_AmbiguousReported ==
    (CgEnded /\ cg_non_unique # EmptyDict) =>
        /\ DOMAIN cg_non_unique \subseteq CgReportedSpecimens
        /\ \A p \in DOMAIN cg_project_samples :
              \A s \in DOMAIN cg_non_unique : CgInBundle(p, s) = {}

\* C28 as stated: in the bundles returned every retained specimen is in the
\* sample list of exactly one project, once.
C28_SpecimenOneProject ==
    cg_pc = "returned" =>
        \A s \in SpecimenIds :
            \A p, q \in DOMAIN cg_project_samples :
                /\ Cardinality(CgInBundle(p, s)) <= 1
                /\ (CgInBundle(p, s) # {} /\ CgInBundle(q, s) # {}) => p = q

\* what holds of the bundles: no record of an ambiguous specimen is in any
\* of them, a specimen has one record at most in the bundle of a project,
\* and all its records carry one instrument id
CgBundlesUnambiguous ==
    \A p, q \in DOMAIN cg_project_samples :
        /\ \A s \in DOMAIN cg_non_unique : CgInBundle(p, s) = {}
        /\ \A s \in SpecimenIds : Cardinality(CgInBundle(p, s)) <= 1
        /\ \A i \in 1..Len(cg_project_samples[p].samples) :
           \A j \in 1..Len(cg_project_samples[q].samples) :
              cg_project_samples[p].samples[i].specimen_id =
                 cg_project_samples[q].samples[j].specimen_id =>
                    cg_project_samples[p].samples[i].instrument_id =
                       cg_project_samples[q].samples[j].instrument_id

(***************************************************************************)
(* utils.write_to_log: two invocations on the same log file                *)
(***************************************************************************)

WcInvocations == {1, 2}

\* the file just after open(log_file, 'w') and before json.dump has written
WcEmptyFile == <<"", "">>

WcInitialFiles ==
    {None, Some(<<>>), Some(<< <<"eggd_artemis", <<"job-1">> >> >>),
     Some(<< <<"dias_batch", <<"job-2">> >>, <<"eggd_artemis", <<>> >> >>)}

\* the mutation: the assignment replaces the whole object
set_log_key_alone(log_data, key, job_ids) == << <<key, job_ids>> >>

\* log_data[key] = job_ids
set_log_key(log_data, key, job_ids) == LogSet(log_data, key, job_ids)

ConcurrentLogInit ==
    /\ wc_pc = [i \in WcInvocations |-> "start"]
    /\ wc_args \in {a \in [WcInvocations -> [key : LogKeys, job_ids : {<<"job-1">>, <<"job-2">>}]] :
                       a[1].key # a[2].key}
    /\ wc_log_data = [i \in WcInvocations |-> <<>>]
    /\ wc_file \in WcInitialFiles
    /\ wc_overlap = FALSE

\* path.exists, json.load (which fails on a file another invocation has
\* opened for writing and not yet written), and the assignment of the key
WcLoad(i) ==
    /\ wc_pc[i] = "start"
    /\ IF wc_file = WcEmptyFile
       THEN /\ wc_pc' = [wc_pc EXCEPT ![i] = "JSONDecodeError"]
            /\ UNCHANGED wc_log_data
       ELSE /\ wc_pc' = [wc_pc EXCEPT ![i] = "loaded"]
            /\ wc_log_data' = [wc_log_data EXCEPT ![i] =
                  set_log_key(load_log_data(wc_file), wc_args[i].key, wc_args[i].job_ids)]
    /\ wc_overlap' = (wc_overlap \/ \E j \in WcInvocations \ {i} : wc_pc[j] \in {"loaded", "opened"})
    /\ UNCHANGED <<wc_args, wc_file>>
    /\ wcFrame

\* open(log_file, 'w'): the file is created or truncated
WcOpen(i) ==
    /\ wc_pc[i] = "loaded"
    /\ wc_pc' = [wc_pc EXCEPT ![i] = "opened"]
    /\ wc_file' = WcEmptyFile
    /\ UNCHANGED <<wc_args, wc_log_data, wc_overlap>>
    /\ wcFrame

\* json.dump(log_data, fh) and the close of the file
WcDump(i) ==
    /\ wc_pc[i] = "opened"
    /\ wc_pc' = [wc_pc EXCEPT ![i] = "done"]
    /\ wc_file' = Some(wc_log_data[i])
    /\ UNCHANGED <<wc_args, wc_log_data, wc_overlap>>
    /\ wcFrame

ConcurrentLogNext == \E i \in WcInvocations : WcLoad(i) \/ WcOpen(i) \/ WcDump(i)

InitConcurrentLog == ConcurrentLogInit /\ wcOthersIdle

SpecConcurrentLog == InitConcurrentLog /\ [][ConcurrentLogNext]_vars

\* ---- properties of concurrent write_to_log invocations

WcAllEnded == \A i \in WcInvocations : wc_pc[i] \in {"done", "JSONDecodeError"}

\* the file holds the key of invocation i with its job ids
WcKeyPresent(i) ==
    /\ wc_file # None
    /\ wc_file # WcEmptyFile
    /\ \E k \in 1..Len(Val(wc_file)) :
          Val(wc_file)[k] = <<wc_args[i].key, wc_args[i].job_ids>>

\* C26: once both invocations have ended, if they ran one after the other
\* both have written and the file holds both keys; a file that lacks the
\* key of an invocation that wrote (a lost update) is left only by
\* invocations that overlapped, and then the file still holds the key of
\* the other one.
C26_LostUpdateWhenInterleaved ==
    WcAllEnded =>
        /\ ~wc_overlap => \A i \in WcInvocations : wc_pc[i] = "done" /\ WcKeyPresent(i)
        /\ (\E i \in WcInvocations : wc_pc[i] = "done" /\ ~WcKeyPresent(i)) =>
              /\ wc_overlap
              /\ \E j \in WcInvocations : wc_pc[j] = "done" /\ WcKeyPresent(j)

\* both invocations read the absent file before either wrote; both wrote,
\* and the file holds the key of the second only
C26_Witness ==
    /\ wc_pc = [i \in WcInvocations |-> "done"]
    /\ wc_overlap
    /\ wc_args[1].key = "dias_batch"
    /\ wc_args[2].key = "dias_reports"
    /\ wc_file = Some(<< <<"dias_reports", wc_args[2].job_ids>> >>)
    /\ ~WcKeyPresent(1)

\* ---- a project without a Dias single path

\* C27 as stated: when get_single_dir returns an empty list for a project
\* no exception is raised, the project has a manual-review entry and it is
\* not launched.
C27_NoSinglePathIsReviewed ==
    \A p \in DOMAIN ci_found :
        ci_found[p].dias_single_paths = <<>> =>
            /\ ci_pc # "IndexError"
            /\ p \in DOMAIN ci_manual_review
            /\ p \notin ci_launched

(***************************************************************************)
(* run_reports.main and run_reports.run_all_batch_jobs: the confirmation   *)
(* prompt, the launch of one batch job per project, and the job log        *)
(***************************************************************************)

\* number of project bundles to launch
MaxBatchProjects == 2

\* number of answers given to the prompt
MaxPrompts == 3

\* what the operator types
MnAnswers ==
    {<<"y">>, <<"Y">>, <<"y", "e", "s">>, <<"Y", "E", "S">>, <<"Y", "e", "s">>,
     <<"n">>, <<"N">>, <<"n", "o">>, <<"N", "o">>,
     <<>>, <<"x">>, <<"y", "e">>, <<" ", "y">>, <<"y", "e", "s", "!">>}

\* str.lower() of one character, for the letters of the answers
MnLowerChar(c) ==
    CASE c = "Y" -> "y" [] c = "E" -> "e" [] c = "S" -> "s" [] c = "N" -> "n" [] c = "O" -> "o"
      [] OTHER -> c

MnLower(s) == [i \in 1..Len(s) |-> MnLowerChar(s[i])]

\* the mutation: every answer that is not a no counts as a yes
answer_is_yes_unless_no(confirm) == MnLower(confirm) \notin {<<"n">>, <<"n", "o">>}

\* confirm.lower() in ['y', 'yes']
answer_is_yes(confirm) == MnLower(confirm) \in {<<"y">>, <<"y", "e", "s">>}

\* confirm.lower() in ['n', 'no']
answer_is_no(confirm) == MnLower(confirm) \in {<<"n">>, <<"n", "o">>}

MnBatchJob(project) == <<"job", project>>

MainInit ==
    /\ mn_pc = "prompt"
    /\ mn_monitor \in BOOLEAN
    /\ mn_answer = None
    /\ mn_prompts = 0
    /\ \E n \in 0..MaxBatchProjects : mn_todo = [i \in 1..n |-> i]
    /\ mn_uploaded = {}
    /\ mn_platform_jobs = {}
    /\ mn_launched_jobs = <<>>
    /\ mn_log = None

\* one turn of the while loop of main: input() and the three branches
MnAnswer ==
    /\ mn_pc = "prompt"
    /\ mn_prompts < MaxPrompts
    /\ \E confirm \in MnAnswers :
          /\ mn_answer' = Some(confirm)
          /\ mn_pc' = IF answer_is_yes(confirm) THEN "launch"
                      ELSE IF answer_is_no(confirm) THEN "exit0"
                      ELSE "prompt"
    /\ mn_prompts' = mn_prompts + 1
    /\ UNCHANGED <<mn_monitor, mn_todo, mn_uploaded, mn_platform_jobs, mn_launched_jobs, mn_log>>
    /\ mnFrame

\* one iteration of the loop of run_all_batch_jobs: the manifest is written
\* and uploaded, the batch job is run and its id appended to launched_jobs
MnLaunchProject ==
    /\ mn_pc = "launch"
    /\ mn_todo # <<>>
    /\ mn_uploaded' = mn_uploaded \cup {Head(mn_todo)}
    /\ mn_platform_jobs' = mn_platform_jobs \cup {MnBatchJob(Head(mn_todo))}
    /\ mn_launched_jobs' = Append(mn_launched_jobs, MnBatchJob(Head(mn_todo)))
    /\ mn_todo' = Tail(mn_todo)
    /\ UNCHANGED <<mn_pc, mn_monitor, mn_answer, mn_prompts, mn_log>>
    /\ mnFrame

\* one iteration that raises: in the download of the codes file, the write
\* or the upload of the manifest (nothing uploaded), or in run_batch (the
\* manifest is uploaded); the exception is caught nowhere and ends the
\* process
MnLaunchRaises ==
    /\ mn_pc = "launch"
    /\ mn_todo # <<>>
    /\ \E manifest_uploaded \in BOOLEAN :
          mn_uploaded' = IF manifest_uploaded THEN mn_uploaded \cup {Head(mn_todo)}
                         ELSE mn_uploaded
    /\ mn_pc' = "Exception"
    /\ UNCHANGED <<mn_monitor, mn_answer, mn_prompts, mn_todo, mn_platform_jobs,
                   mn_launched_jobs, mn_log>>
    /\ mnFrame

\* run_all_batch_jobs returns and main writes the ids under 'dias_batch'
MnWriteLog ==
    /\ mn_pc = "launch"
    /\ mn_todo = <<>>
    /\ mn_log' = write_to_log(mn_log, "dias_batch", mn_launched_jobs)
    /\ mn_pc' = IF mn_monitor /\ mn_launched_jobs # <<>> THEN "logged" ELSE "done"
    /\ UNCHANGED <<mn_monitor, mn_answer, mn_prompts, mn_todo, mn_uploaded,
                   mn_platform_jobs, mn_launched_jobs>>
    /\ mnFrame

\* with --monitor: the batch jobs are monitored and the ids of the launched
\* workflows written under 'dias_reports' and 'eggd_artemis'
MnMonitor ==
    /\ mn_pc = "logged"
    /\ \/ /\ mn_pc' = "done"
          /\ mn_log' = write_to_log(write_to_log(mn_log, "dias_reports", <<"analysis-1">>),
                                    "eggd_artemis", <<"job-artemis-1">>)
       \/ /\ mn_pc' = "Exception"
          /\ UNCHANGED mn_log
    /\ UNCHANGED <<mn_monitor, mn_answer, mn_prompts, mn_todo, mn_uploaded,
                   mn_platform_jobs, mn_launched_jobs>>
    /\ mnFrame

MainNext == MnAnswer \/ MnLaunchProject \/ MnLaunchRaises \/ MnWriteLog \/ MnMonitor

InitMain == MainInit /\ mnOthersIdle

SpecMain == InitMain /\ [][MainNext]_vars

\* ---- properties of main

MnEnded == mn_pc \in {"done", "exit0", "Exception"}

\* the job ids the log holds under 'dias_batch'
MnLoggedBatchJobs ==
    IF mn_log = None THEN {}
    ELSE UNION {Range(Val(mn_log)[i][2]) : i \in {k \in 1..Len(Val(mn_log)) :
                                                     Val(mn_log)[k][1] = "dias_batch"}}

\* C29 as stated: when the process has ended, every batch job launched on
\* the platform is in the log under 'dias_batch'.
C29_LaunchedJobsLogged ==
    MnEnded => mn_platform_jobs \subseteq MnLoggedBatchJobs

MnNoSideEffects ==
    /\ mn_uploaded = {}
    /\ mn_platform_jobs = {}
    /\ mn_launched_jobs = <<>>
    /\ mn_log = None

\* the answers that confirm, and those that decline
MnYes == {<<"y">>, <<"Y">>, <<"y", "e", "s">>, <<"Y", "E", "S">>, <<"Y", "e", "s">>}

MnNo == {<<"n">>, <<"N">>, <<"n", "o">>, <<"N", "o">>}

C30_StateInv ==
    \* a manifest, a job or a log exists only once the last answer was a yes
    /\ ~MnNoSideEffects => mn_answer # None /\ Val(mn_answer) \in MnYes
    \* after a no the process has ended and nothing was done
    /\ (mn_answer # None /\ Val(mn_answer) \in MnNo) => mn_pc = "exit0" /\ MnNoSideEffects
    /\ mn_pc = "exit0" => mn_answer # None /\ Val(mn_answer) \in MnNo
    \* after any other answer the prompt is up again and nothing was done
    /\ (mn_answer # None /\ Val(mn_answer) \notin MnYes \cup MnNo) =>
          mn_pc = "prompt" /\ MnNoSideEffects
    /\ mn_pc \in {"launch", "logged", "done", "Exception"} =>
          mn_answer # None /\ Val(mn_answer) \in MnYes

\* an answer changes nothing but the position in main
C30_StepInv ==
    mn_pc = "prompt" =>
        <<mn_todo, mn_uploaded, mn_platform_jobs, mn_launched_jobs, mn_log>>' =
        <<mn_todo, mn_uploaded, mn_platform_jobs, mn_launched_jobs, mn_log>>

\* C30: no manifest is uploaded, no batch job launched and no log written
\* before the prompt was answered with y or yes in any casing; n or no ends
\* the process with nothing done; any other answer brings the prompt up
\* again with nothing done.
C30_ConfirmBeforeLaunch == [](C30_StateInv) /\ [][C30_StepInv]_vars

\* after an answer that is neither and then 'YES', two jobs were launched
\* and logged
C30_Witness ==
    /\ mn_pc = "done"
    /\ mn_prompts = 2
    /\ mn_answer = Some(<<"Y", "E", "S">>)
    /\ Cardinality(mn_platform_jobs) = 2
    /\ mn_log # None

====
